---- MODULE Spec2Model ----
(***************************************************************************)
(* Pricing calculator of Grow-Cursor-Backend (utils/pricingCalculator.js,  *)
(* the second file of src/unnamed/part_008): validatePricingConfig,        *)
(* validateProfitTiers, getApplicableProfit and calculateStartPrice.       *)
(*                                                                         *)
(* JavaScript values are tagged records [k, n, d]: a finite number is the  *)
(* reduced fraction n/d (d > 0); the other tags are the special values the *)
(* code's coercions distinguish.  Arithmetic on finite numbers is exact:   *)
(* the binary rounding error of IEEE-754 doubles is not modelled.          *)
(***************************************************************************)
EXTENDS Integers, Sequences, FiniteSets, TLC

VARIABLES config, ret, earlier

\* lib/imageCache.js (src/unnamed/part_000): the Map of the singleton in
\* insertion order, its counters, the clock Date.now() reads, whether the
\* cleanup interval runs, the outcome of the last call, and the keys held
\* ordered by their last use (least recently used first)
VARIABLES cache, hits, misses, now, cleanup, cacheRet, usage

cacheVars == <<cache, hits, misses, now, cleanup, cacheRet, usage>>

\* routes/sellerPricingConfig.js: the documents of the SellerPricingConfig
\* collection in insertion order, the requests being handled, and the
\* (sellerId, templateId) pairs a DELETE reverted with no POST written since
VARIABLES sellerPricingConfigs, requests, reverted

storeVars == <<sellerPricingConfigs, requests, reverted>>

\* routes/leaves.js (src/unnamed/part_013): the LeaveRequest documents, how
\* many were created, and the requests being handled
VARIABLES leaveRequests, created, leaveCalls

leaveVars == <<leaveRequests, created, leaveCalls>>

\* the state of the components a pricing call does not touch
elsewhere == <<cacheVars, storeVars, leaveVars>>

vars == <<config, ret, earlier, elsewhere>>

\* the state of the components an ImageCache call does not touch
outsideCache == <<config, ret, earlier, storeVars, leaveVars>>

\* the state of the components a seller pricing config request does not touch
outsideStore == <<config, ret, earlier, cacheVars, leaveVars>>

\* the state of the components a leave request does not touch
outsideLeaves == <<config, ret, earlier, cacheVars, storeVars>>

\* new ImageCache() (part_000:16-22), before any call
NoCacheCall == [op |-> "none", key |-> "", out |-> "", evicted |-> ""]

InitCache ==
  /\ cache = <<>>
  /\ hits = 0
  /\ misses = 0
  /\ now = 0
  /\ cleanup = FALSE
  /\ cacheRet = NoCacheCall
  /\ usage = <<>>

----------------------------------------------------------------------------
(* JavaScript values *)

Abs(x) == IF x < 0 THEN -x ELSE x

RECURSIVE GCD(_, _)
GCD(a, b) == IF b = 0 THEN a ELSE GCD(b, a % b)

Sign(x) == IF x < 0 THEN -1 ELSE IF x > 0 THEN 1 ELSE 0

\* the fraction n/d in lowest terms, as a JavaScript number
Num(n, d) ==
  LET g == GCD(Abs(n), Abs(d))
  IN  [k |-> "number", n |-> Sign(d) * (n \div g), d |-> Abs(d) \div g]

Int2(n) == [k |-> "number", n |-> n, d |-> 1]

Undef  == [k |-> "undefined", n |-> 0, d |-> 1]
Null   == [k |-> "null", n |-> 0, d |-> 1]
NaNv   == [k |-> "NaN", n |-> 0, d |-> 1]
PosInf == [k |-> "Infinity", n |-> 1, d |-> 1]
NegInf == [k |-> "Infinity", n |-> -1, d |-> 1]
\* a string that is not a numeric literal, such as "abc"
Str    == [k |-> "string", n |-> 0, d |-> 1]

IsFiniteNum(v) == v.k = "number"
IsNumeric(v) == v.k \in {"number", "Infinity"}

\* ToNumber: undefined and non-numeric strings give NaN, null gives 0
ToNumber(v) ==
  CASE v.k = "undefined" -> NaNv
    [] v.k = "null" -> Int2(0)
    [] v.k = "string" -> NaNv
    [] OTHER -> v

\* the global isNaN(v)
isNaN(v) == ToNumber(v).k = "NaN"

\* the global isFinite(v)
isFinite(v) == ToNumber(v).k = "number"

\* ToBoolean: 0, NaN, null and undefined are falsy; "abc" is truthy
Truthy(v) ==
  CASE v.k = "number" -> v.n # 0
    [] v.k = "Infinity" -> TRUE
    [] v.k = "string" -> TRUE
    [] OTHER -> FALSE

\* a < b on numbers (extended with the infinities); never called with NaN
NumLess(a, b) ==
  CASE a.k = "Infinity" /\ b.k = "Infinity" -> a.n < b.n
    [] a.k = "Infinity" -> a.n < 0
    [] b.k = "Infinity" -> b.n > 0
    [] OTHER -> a.n * b.d < b.n * a.d

NumEq(a, b) == a.k = b.k /\ a.n = b.n /\ a.d = b.d

\* the relational operators: both sides through ToNumber, NaN compares false
Lt(a, b) ==
  LET x == ToNumber(a)  y == ToNumber(b)
  IN  x.k # "NaN" /\ y.k # "NaN" /\ NumLess(x, y)

Gt(a, b) == Lt(b, a)

Le(a, b) ==
  LET x == ToNumber(a)  y == ToNumber(b)
  IN  x.k # "NaN" /\ y.k # "NaN" /\ ~NumLess(y, x)

Ge(a, b) == Le(b, a)

\* a === b: same type and same value; NaN equals nothing
StrictEq(a, b) ==
  /\ a.k # "NaN"
  /\ b.k # "NaN"
  /\ a = b

\* numeric a + b on ToNumber'ed operands
NumAdd(x, y) ==
  CASE x.k = "NaN" \/ y.k = "NaN" -> NaNv
    [] x.k = "Infinity" /\ y.k = "Infinity" -> IF x.n = y.n THEN x ELSE NaNv
    [] x.k = "Infinity" -> x
    [] y.k = "Infinity" -> y
    [] OTHER ->
         LET g == GCD(x.d, y.d)
         IN  Num(x.n * (y.d \div g) + y.n * (x.d \div g), x.d * (y.d \div g))

NumNeg(x) == IF x.k = "NaN" THEN x ELSE [x EXCEPT !.n = -x.n]

NumMul(x, y) ==
  CASE x.k = "NaN" \/ y.k = "NaN" -> NaNv
    [] x.k = "Infinity" \/ y.k = "Infinity" ->
         IF x.n = 0 \/ y.n = 0 THEN NaNv
         ELSE IF Sign(x.n) * Sign(y.n) > 0 THEN PosInf ELSE NegInf
    [] OTHER ->
         LET g1 == GCD(Abs(x.n), y.d)
             g2 == GCD(Abs(y.n), x.d)
         IN  IF x.n = 0 \/ y.n = 0 THEN Int2(0)
             ELSE Num((x.n \div g1) * (y.n \div g2), (x.d \div g2) * (y.d \div g1))

\* x / y; a zero divisor is +0 wherever the calculator divides
NumDiv(x, y) ==
  CASE x.k = "NaN" \/ y.k = "NaN" -> NaNv
    [] x.k = "Infinity" /\ y.k = "Infinity" -> NaNv
    [] y.k = "Infinity" -> Int2(0)
    [] y.n = 0 ->
         IF x.n = 0 THEN NaNv ELSE IF x.n > 0 THEN PosInf ELSE NegInf
    [] x.k = "Infinity" -> IF Sign(x.n) * Sign(y.n) > 0 THEN PosInf ELSE NegInf
    [] OTHER -> NumMul(x, Num(y.d * Sign(y.n), Abs(y.n)))

\* a + b: string concatenation when either side is a string (the result is
\* again a non-numeric string), numeric addition otherwise
Add(a, b) ==
  IF a.k = "string" \/ b.k = "string" THEN Str
  ELSE NumAdd(ToNumber(a), ToNumber(b))

Sub(a, b) == NumAdd(ToNumber(a), NumNeg(ToNumber(b)))
Mul(a, b) == NumMul(ToNumber(a), ToNumber(b))
Div(a, b) == NumDiv(ToNumber(a), ToNumber(b))

\* floor of the fraction n/d, d > 0
FloorDiv(n, d) == IF n >= 0 THEN n \div d ELSE -((-n + d - 1) \div d)

\* Math.round(x): floor(x + 1/2), ties towards +Infinity
MathRound(v) ==
  LET x == ToNumber(v)
      q == FloorDiv(x.n, x.d)
      r == x.n - q * x.d
  IN  IF x.k # "number" THEN x
      ELSE Int2(IF 2 * r >= x.d THEN q + 1 ELSE q)

\* Math.round(v * scale) / scale
RoundTo(v, scale) == Div(MathRound(Mul(v, Int2(scale))), Int2(scale))

----------------------------------------------------------------------------
(* Outcomes of a call: a return value or a thrown Error *)

\* new Error(...): the message text, the field it names, the tier numbers
Throw(text, field, idx) ==
  [kind |-> "throw", text |-> text, field |-> field, idx |-> idx]

Return(value, warned) ==
  [kind |-> "return", value |-> value, warned |-> warned]

Threw(o) == o.kind = "throw"

----------------------------------------------------------------------------
(* validateProfitTiers *)

\* Array.isArray(tiers) and the array's elements
TiersArray(items) == [k |-> "array", items |-> items]
\* tiers: undefined, tiers: null and tiers: {} (an object that is no array)
TiersUndefined == [k |-> "undefined", items |-> <<>>]
TiersNull == [k |-> "null", items |-> <<>>]
TiersObject == [k |-> "object", items |-> <<>>]

Tier(minCost, maxCost, profit) ==
  [minCost |-> minCost, maxCost |-> maxCost, profit |-> profit]

\* how many tiers a tier list of the inputs holds at most
MaxTiers == 3

\* the permutations of 1..n, for the array lengths that occur
PermutationsByLength ==
  [n \in 0..(MaxTiers + 1) |->
     {p \in [1..n -> 1..n] : \A i, j \in 1..n : p[i] = p[j] => i = j}]
Permutations1(n) == PermutationsByLength[n]

\* (a, b) => a.minCost - b.minCost
CompareMinCost(a, b) == Sub(a.minCost, b.minCost)

\* the comparator gives NaN for some pair: the order sort() leaves is then
\* implementation-defined
InconsistentComparator(items) ==
  \E i, j \in 1..Len(items) : CompareMinCost(items[i], items[j]).k = "NaN"

\* t put into the ascending sequence s behind every element that does not
\* compare greater than it
RECURSIVE InsertTier(_, _)
InsertTier(s, t) ==
  IF s = <<>> THEN <<t>>
  ELSE IF CompareMinCost(s[Len(s)], t).n <= 0 THEN Append(s, t)
  ELSE Append(InsertTier(SubSeq(s, 1, Len(s) - 1), t), s[Len(s)])

\* the stable ascending order of items (Array.prototype.sort is stable)
RECURSIVE StableSort(_)
StableSort(items) ==
  IF items = <<>> THEN <<>>
  ELSE InsertTier(StableSort(SubSeq(items, 1, Len(items) - 1)), items[Len(items)])

\* the possible values of [...tiers].sort(...): the stable ascending order
\* when the comparator is consistent, any order otherwise
SortedOrders_Unsorted(items) == {items}
SortedOrders(items) ==
  IF InconsistentComparator(items)
  THEN {[i \in 1..Len(items) |-> items[p[i]]] : p \in Permutations1(Len(items))}
  ELSE {StableSort(items)}

\* [...tiers].sort(...) sorts a copy: what the caller's array holds after it
TiersAfterSort_InPlace(items, sorted) == sorted
TiersAfterSort(items, sorted) == items

\* tier.maxCost === null || tier.maxCost === undefined
NoMaxCost(tier) == tier.maxCost.k = "null" \/ tier.maxCost.k = "undefined"

\* isNaN(tier.maxCost) || tier.maxCost <= tier.minCost
MaxCostBad_Strict(tier) == isNaN(tier.maxCost) \/ Lt(tier.maxCost, tier.minCost)
MaxCostBad(tier) == isNaN(tier.maxCost) \/ Le(tier.maxCost, tier.minCost)

\* tier.maxCost > nextTier.minCost
Overlaps_Swapped(tier, nextTier) == Lt(tier.maxCost, nextTier.minCost)
Overlaps(tier, nextTier) == Gt(tier.maxCost, nextTier.minCost)

\* tier.maxCost !== nextTier.minCost
HasGap(tier, nextTier) == ~StrictEq(tier.maxCost, nextTier.minCost)

\* one iteration of the for loop over sorted[i] (i is 1-based here, the
\* message numbers tiers as the code's i + 1)
RECURSIVE TierLoop(_, _)
TierLoop(sorted, i) ==
  LET tier == sorted[i]
  IN  IF i > Len(sorted) THEN Return(TRUE, FALSE)
      ELSE IF tier.minCost.k = "undefined" \/ tier.minCost.k = "null"
              \/ isNaN(tier.minCost) \/ Lt(tier.minCost, Int2(0))
        THEN Throw("minCost must be a non-negative number", "", <<i>>)
      ELSE IF tier.profit.k = "undefined" \/ tier.profit.k = "null"
              \/ isNaN(tier.profit) \/ Le(tier.profit, Int2(0))
        THEN Throw("profit must be a positive number", "", <<i>>)
      ELSE IF ~NoMaxCost(tier) /\ MaxCostBad(tier)
        THEN Throw("maxCost must be greater than minCost", "", <<i>>)
      ELSE IF i < Len(sorted)
        THEN IF NoMaxCost(tier)
               THEN Throw("Only the last tier can have maxCost as null/unlimited",
                          "", <<i>>)
             ELSE IF Overlaps(tier, sorted[i + 1])
               THEN Throw("Ranges cannot overlap", "", <<i, i + 1>>)
             ELSE IF HasGap(tier, sorted[i + 1])
               THEN Throw("Ranges must be continuous (no gaps)", "", <<i, i + 1>>)
             ELSE TierLoop(sorted, i + 1)
      \* the last tier: console.warn when its maxCost is bounded
      ELSE Return(TRUE, ~NoMaxCost(tier))

\* validateProfitTiers(tiers), with sorted the array line 421 produced
validateProfitTiersSorted(tiers, sorted) ==
  IF tiers.k # "array" \/ Len(tiers.items) = 0
  THEN Throw("At least one profit tier is required when tiered profit is enabled",
             "", <<>>)
  ELSE TierLoop(sorted, 1)

\* every outcome validateProfitTiers(tiers) can have
validateProfitTiers(tiers) ==
  {validateProfitTiersSorted(tiers, s) : s \in SortedOrders(tiers.items)}

----------------------------------------------------------------------------
(* The pricing configuration *)

\* config.profitTiers: absent, or { enabled, tiers }
NoProfitTiers == [k |-> "undefined", enabled |-> FALSE, tiers |-> TiersUndefined]
ProfitTiers(enabled, tiers) == [k |-> "object", enabled |-> enabled, tiers |-> tiers]

\* config.profitTiers?.enabled
TiersEnabled(cfg) == cfg.profitTiers.k = "object" /\ cfg.profitTiers.enabled

getDefaultPricingConfig ==
  [k |-> "object",
   enabled |-> FALSE,
   spentRate |-> Null,
   payoutRate |-> Null,
   desiredProfit |-> Null,
   fixedFee |-> Int2(0),
   saleTax |-> Int2(0),
   ebayFee |-> Num(129, 10),
   adsFee |-> Int2(3),
   tdsFee |-> Int2(1),
   shippingCost |-> Int2(0),
   taxRate |-> Int2(10),
   profitTiers |-> ProfitTiers(FALSE, TiersArray(<<>>))]

requiredFields == <<"spentRate", "payoutRate", "desiredProfit">>
percentageFields == <<"saleTax", "ebayFee", "adsFee", "tdsFee", "taxRate">>
nonNegativeFields == <<"fixedFee", "shippingCost">>

\* !config[field] || isNaN(config[field]) || config[field] <= 0
RequiredFieldBad_NoSign(v) == ~Truthy(v) \/ isNaN(v)
RequiredFieldBad(v) == ~Truthy(v) \/ isNaN(v) \/ Le(v, Int2(0))

\* present, and isNaN(value) || value < 0 || value > 100
PercentageFieldBad_Exclusive(v) ==
  /\ v.k # "undefined"
  /\ v.k # "null"
  /\ (isNaN(v) \/ Lt(v, Int2(0)) \/ Ge(v, Int2(100)))
PercentageFieldBad(v) ==
  /\ v.k # "undefined"
  /\ v.k # "null"
  /\ (isNaN(v) \/ Lt(v, Int2(0)) \/ Gt(v, Int2(100)))

\* present, and isNaN(value) || value < 0
NonNegativeFieldBad(v) ==
  /\ v.k # "undefined"
  /\ v.k # "null"
  /\ (isNaN(v) \/ Lt(v, Int2(0)))

\* the field the loop throws at: the first of the indices bad, 0 when there
\* is none
FirstBad(bad) ==
  IF bad = {} THEN 0 ELSE CHOOSE i \in bad : \A j \in bad : i <= j

\* the required fields the check of line 379 rejects
BadRequired(cfg) ==
  {i \in 1..Len(requiredFields) : RequiredFieldBad(cfg[requiredFields[i]])}

\* the else branch of line 372: the required fields are looked at only when
\* tiered profit is not enabled
FirstBadRequired_Always(cfg) == FirstBad(BadRequired(cfg))
FirstBadRequired(cfg) ==
  IF TiersEnabled(cfg) THEN 0
  ELSE FirstBad(BadRequired(cfg))

\* validatePricingConfig(config), with sorted the array validateProfitTiers
\* sorts the tiers into
validatePricingConfigSorted(cfg, sorted) ==
  LET tiersOut == IF TiersEnabled(cfg)
                  THEN validateProfitTiersSorted(cfg.profitTiers.tiers, sorted)
                  ELSE Return(TRUE, FALSE)
      req == FirstBadRequired(cfg)
      pct == FirstBad({i \in 1..Len(percentageFields) :
                       PercentageFieldBad(cfg[percentageFields[i]])})
      nonNeg == FirstBad({i \in 1..Len(nonNegativeFields) :
                          NonNegativeFieldBad(cfg[nonNegativeFields[i]])})
  IN  IF cfg.k # "object" THEN Throw("Pricing config is required", "", <<>>)
      ELSE IF Threw(tiersOut) THEN tiersOut
      ELSE IF req # 0
        THEN Throw("is required and must be a positive number",
                   requiredFields[req], <<>>)
      ELSE IF pct # 0
        THEN Throw("must be between 0 and 100", percentageFields[pct], <<>>)
      ELSE IF nonNeg # 0
        THEN Throw("must be a non-negative number", nonNegativeFields[nonNeg], <<>>)
      ELSE Return(Undef, tiersOut.warned)

\* every outcome validatePricingConfig(config) can have
validatePricingConfig(cfg) ==
  {validatePricingConfigSorted(cfg, s) :
     s \in SortedOrders(cfg.profitTiers.tiers.items)}

----------------------------------------------------------------------------
(* getApplicableProfit and getCostRangeForProfit *)

\* cost >= tier.minCost && (tier.maxCost === null || cost < tier.maxCost)
TierMatches_Inclusive(cost, tier) ==
  /\ Ge(cost, tier.minCost)
  /\ (tier.maxCost.k = "null" \/ Le(cost, tier.maxCost))
TierMatches(cost, tier) ==
  /\ Ge(cost, tier.minCost)
  /\ (tier.maxCost.k = "null" \/ Lt(cost, tier.maxCost))

\* the index of the first tier of the for..of loop that matches, 0 when none
FirstMatch(cost, items) ==
  LET m == {i \in 1..Len(items) : TierMatches(cost, items[i])}
  IN  IF m = {} THEN 0 ELSE CHOOSE i \in m : \A j \in m : i <= j

\* !profitTiers?.enabled || !profitTiers?.tiers?.length
UsesFixedProfit(cfg) ==
  \/ ~TiersEnabled(cfg)
  \/ cfg.profitTiers.tiers.k # "array"
  \/ Len(cfg.profitTiers.tiers.items) = 0

getApplicableProfit_NoFallback(amazonCost, pricingConfig) ==
  LET items == pricingConfig.profitTiers.tiers.items
      m == FirstMatch(amazonCost, items)
  IN  IF UsesFixedProfit(pricingConfig) THEN pricingConfig.desiredProfit
      ELSE IF m # 0 THEN items[m].profit
      ELSE Undef
getApplicableProfit(amazonCost, pricingConfig) ==
  LET items == pricingConfig.profitTiers.tiers.items
      m == FirstMatch(amazonCost, items)
  IN  IF UsesFixedProfit(pricingConfig) THEN pricingConfig.desiredProfit
      ELSE IF m # 0 THEN items[m].profit
      ELSE pricingConfig.desiredProfit

\* the cost range string: "N/A", or "$min - $max" with max shown as the
\* infinity sign when the tier's maxCost === null
NoCostRange == [text |-> "N/A", min |-> Undef, max |-> Undef]

getCostRangeForProfit_Inclusive(cost, tiers) ==
  LET in == {i \in 1..Len(tiers.items) : TierMatches_Inclusive(cost, tiers.items[i])}
      m == IF in = {} THEN 0 ELSE CHOOSE i \in in : \A j \in in : i <= j
  IN  IF m = 0 THEN NoCostRange
      ELSE [text |-> "min - max",
            min |-> tiers.items[m].minCost,
            max |-> IF tiers.items[m].maxCost.k = "null" THEN PosInf
                    ELSE tiers.items[m].maxCost]
getCostRangeForProfit(cost, tiers) ==
  LET m == FirstMatch(cost, tiers.items)
  IN  IF m = 0 THEN NoCostRange
      ELSE [text |-> "min - max",
            min |-> tiers.items[m].minCost,
            max |-> IF tiers.items[m].maxCost.k = "null" THEN PosInf
                    ELSE tiers.items[m].maxCost]

----------------------------------------------------------------------------
(* calculateStartPrice *)

\* a destructuring default: used for undefined only, null is kept
OrDefault(v, dflt) == IF v.k = "undefined" THEN dflt ELSE v

\* !amazonCost || isNaN(amazonCost) || amazonCost <= 0
InvalidCost_AfterFirstCall(amazonCost) ==
  \/ earlier.op # "none"
  \/ ~Truthy(amazonCost) \/ isNaN(amazonCost) \/ Le(amazonCost, Int2(0))
InvalidCost(amazonCost) ==
  ~Truthy(amazonCost) \/ isNaN(amazonCost) \/ Le(amazonCost, Int2(0))

\* 1 - (1 + saleTax/100) * (ebayFee/100 + adsFee/100 + tdsFee/100)
FeeMultiplier(saleTax, ebayFee, adsFee, tdsFee) ==
  LET combinedFees == Add(Add(Div(ebayFee, Int2(100)), Div(adsFee, Int2(100))),
                          Div(tdsFee, Int2(100)))
      saleTaxMultiplier == Add(Int2(1), Div(saleTax, Int2(100)))
  IN  Sub(Int2(1), Mul(saleTaxMultiplier, combinedFees))

\* payoutUSD + (fixedFee / payoutRate)
WithFixedFee(payoutUSD, fixedFee, payoutRate) ==
  Add(payoutUSD, Div(fixedFee, payoutRate))

\* Math.round(finalPrice * 100) / 100
RoundPrice(finalPrice) == RoundTo(finalPrice, 100)

\* feeMultiplier <= 0
FeeMultiplierBad_Strict(feeMultiplier) == Lt(feeMultiplier, Int2(0))
FeeMultiplierBad(feeMultiplier) == Le(feeMultiplier, Int2(0))

\* !isFinite(finalPrice) || finalPrice <= 0
FinalPriceBad_NoFinite(finalPrice) == Le(finalPrice, Int2(0))
FinalPriceBad(finalPrice) == ~isFinite(finalPrice) \/ Le(finalPrice, Int2(0))

\* the checks of calculateStartPrice in the order they are made, valid being
\* the outcome of validatePricingConfig: the first that fails throws
FirstFailure_CostFirst(valid, amazonCost, feeMultiplier, finalPrice) ==
  IF InvalidCost(amazonCost)
    THEN Throw("Invalid Amazon cost. Must be a positive number.", "", <<>>)
  ELSE IF Threw(valid) THEN valid
  ELSE IF FeeMultiplierBad(feeMultiplier)
    THEN Throw("Invalid fee configuration. Fee multiplier must be positive. Check your percentage values.",
               "", <<>>)
  ELSE IF FinalPriceBad(finalPrice)
    THEN Throw("Calculated price is invalid. Please check your pricing configuration.",
               "", <<>>)
  ELSE valid
FirstFailure(valid, amazonCost, feeMultiplier, finalPrice) ==
  IF Threw(valid) THEN valid
  ELSE IF InvalidCost(amazonCost)
    THEN Throw("Invalid Amazon cost. Must be a positive number.", "", <<>>)
  ELSE IF FeeMultiplierBad(feeMultiplier)
    THEN Throw("Invalid fee configuration. Fee multiplier must be positive. Check your percentage values.",
               "", <<>>)
  ELSE IF FinalPriceBad(finalPrice)
    THEN Throw("Calculated price is invalid. Please check your pricing configuration.",
               "", <<>>)
  ELSE valid

\* calculateStartPrice(pricingConfig, amazonCost), with sorted the array
\* validateProfitTiers sorts the tiers into
calculateStartPriceSorted(pricingConfig, amazonCost, sorted) ==
  LET valid == validatePricingConfigSorted(pricingConfig, sorted)
      spentRate == pricingConfig.spentRate
      payoutRate == pricingConfig.payoutRate
      fixedFee == OrDefault(pricingConfig.fixedFee, Int2(0))
      saleTax == OrDefault(pricingConfig.saleTax, Int2(0))
      ebayFee == OrDefault(pricingConfig.ebayFee, Num(129, 10))
      adsFee == OrDefault(pricingConfig.adsFee, Int2(3))
      tdsFee == OrDefault(pricingConfig.tdsFee, Int2(1))
      shippingCost == OrDefault(pricingConfig.shippingCost, Int2(0))
      taxRate == OrDefault(pricingConfig.taxRate, Int2(10))
      taxUSD == Mul(amazonCost, Div(taxRate, Int2(100)))
      buyingPriceUSD == Add(Add(amazonCost, shippingCost), taxUSD)
      buyingPriceINR == Mul(buyingPriceUSD, spentRate)
      applicableProfit == getApplicableProfit(amazonCost, pricingConfig)
      profitComponent == Add(applicableProfit, buyingPriceINR)
      payoutUSD == Div(profitComponent, payoutRate)
      withFixedFee == WithFixedFee(payoutUSD, fixedFee, payoutRate)
      feeMultiplier == FeeMultiplier(saleTax, ebayFee, adsFee, tdsFee)
      finalPrice == Div(withFixedFee, feeMultiplier)
      roundedPrice == RoundPrice(finalPrice)
      failure == FirstFailure(valid, amazonCost, feeMultiplier, finalPrice)
  IN  IF Threw(failure) THEN failure
      ELSE Return(
        [price |-> roundedPrice,
         breakdown |->
           [cost |-> amazonCost,
            shipping |-> shippingCost,
            taxRate |-> taxRate,
            tax |-> RoundTo(taxUSD, 100),
            buyingPriceUSD |-> RoundTo(buyingPriceUSD, 100),
            buyingPriceINR |-> RoundTo(buyingPriceINR, 100),
            applicableProfit |-> applicableProfit,
            profitTier |->
              IF TiersEnabled(pricingConfig)
              THEN [enabled |-> TRUE, profit |-> applicableProfit,
                    costRange |-> getCostRangeForProfit(amazonCost,
                                    pricingConfig.profitTiers.tiers)]
              ELSE [enabled |-> FALSE, profit |-> pricingConfig.desiredProfit],
            desiredProfit |-> applicableProfit,
            profitComponent |-> RoundTo(profitComponent, 100),
            payoutUSD |-> RoundTo(payoutUSD, 100),
            fixedFee |-> fixedFee,
            withFixedFee |-> RoundTo(withFixedFee, 100),
            feeMultiplier |-> RoundTo(feeMultiplier, 10000),
            finalPrice |-> roundedPrice]],
        valid.warned)

\* every outcome calculateStartPrice(pricingConfig, amazonCost) can have
calculateStartPrice(pricingConfig, amazonCost) ==
  {calculateStartPriceSorted(pricingConfig, amazonCost, s) :
     s \in SortedOrders(pricingConfig.profitTiers.tiers.items)}

----------------------------------------------------------------------------
(* Inputs: the configurations and costs the calls are checked on *)

\* how many fields of a configuration differ from the base it is built on
MaxChanged == 1

\* the configuration of the worked example: the defaults with both rates
\* and a flat profit set
ScenarioConfig ==
  [getDefaultPricingConfig EXCEPT !.spentRate = Int2(83),
                                  !.payoutRate = Int2(80),
                                  !.desiredProfit = Int2(500)]

\* [{0, 50, profit 10}, {50, null, profit 20}]
ScenarioTiers ==
  <<Tier(Int2(0), Int2(50), Int2(10)), Tier(Int2(50), Null, Int2(20))>>

TieredConfig ==
  [ScenarioConfig EXCEPT !.profitTiers = ProfitTiers(TRUE, TiersArray(ScenarioTiers))]

\* a tiered-only configuration: no flat profit
TieredOnlyConfig == [TieredConfig EXCEPT !.desiredProfit = Null]

\* a flat-profit configuration with every term of the formula non-zero
FullConfig ==
  [ScenarioConfig EXCEPT !.fixedFee = Int2(5), !.shippingCost = Int2(5),
                         !.saleTax = Int2(5)]

\* fees that make the fee multiplier exactly 0, and negative
ZeroFeeConfig ==
  [ScenarioConfig EXCEPT !.ebayFee = Int2(100), !.adsFee = Int2(0),
                         !.tdsFee = Int2(0)]
NegativeFeeConfig ==
  [ScenarioConfig EXCEPT !.ebayFee = Int2(90), !.adsFee = Int2(10),
                         !.tdsFee = Int2(10)]

BaseConfigs ==
  {getDefaultPricingConfig, ScenarioConfig, FullConfig, TieredConfig,
   TieredOnlyConfig, ZeroFeeConfig, NegativeFeeConfig}

RequiredValues ==
  {Undef, Null, Str, Int2(0), Int2(-1), Int2(100)}
PercentageValues ==
  {Undef, Null, Str, Int2(-1), Int2(0), Int2(100), Int2(150)}
NonNegativeValues ==
  {Undef, Null, Str, Int2(-1), Int2(0), Int2(5)}

TierListValues ==
  {TiersUndefined, TiersObject, TiersArray(<<>>),
   TiersArray(ScenarioTiers),
   TiersArray(<<ScenarioTiers[2], ScenarioTiers[1]>>),
   TiersArray(<<Tier(Int2(0), Int2(60), Int2(10)), ScenarioTiers[2]>>),
   TiersArray(<<Tier(Int2(0), Int2(40), Int2(10)), ScenarioTiers[2]>>),
   TiersArray(<<ScenarioTiers[1], Tier(Int2(50), Undef, Int2(20))>>),
   TiersArray(<<ScenarioTiers[1], Tier(Int2(50), Int2(100), Int2(20))>>),
   \* one tier that starts above some of the costs
   TiersArray(<<ScenarioTiers[2]>>),
   \* a minCost that is no number: the comparator of the sort yields NaN
   TiersArray(<<Tier(Str, Int2(50), Int2(10)), ScenarioTiers[2]>>),
   TiersArray(<<ScenarioTiers[2], Tier(Str, Int2(50), Int2(10))>>)}

\* profitTiers: absent, enabled with each of the lists, disabled with some
ProfitTiersValues ==
  {NoProfitTiers}
    \cup {ProfitTiers(TRUE, t) : t \in TierListValues}
    \cup {ProfitTiers(FALSE, t) :
           t \in {TiersUndefined, TiersArray(<<>>), TiersArray(ScenarioTiers)}}

FieldValues(f) ==
  CASE f \in {"spentRate", "desiredProfit"} -> RequiredValues
    [] f = "payoutRate" -> RequiredValues \cup {Int2(1000000)}
    [] f \in {"saleTax", "adsFee", "tdsFee", "taxRate"} -> PercentageValues
    [] f = "ebayFee" -> PercentageValues \cup {Num(95996, 1000)}
    [] f \in {"fixedFee", "shippingCost"} -> NonNegativeValues
    [] f = "profitTiers" -> ProfitTiersValues
    \* the config argument itself: undefined, null or a string
    [] f = "k" -> {"undefined", "null", "string"}

EditableFields ==
  {"spentRate", "payoutRate", "desiredProfit", "saleTax", "ebayFee", "adsFee",
   "tdsFee", "taxRate", "fixedFee", "shippingCost", "profitTiers", "k"}

\* the configurations n field changes away from those of S
\* the configurations one field change away from those of S, and S
EditOnce(S) ==
  S \cup {[c EXCEPT ![e[1]] = e[2]] :
           c \in S, e \in UNION {{<<f, v>> : v \in FieldValues(f)} : f \in EditableFields}}

\* the configurations at most n field changes away from those of S
RECURSIVE Edited(_, _)
Edited(S, n) == IF n = 0 THEN S ELSE EditOnce(Edited(S, n - 1))

EditedConfigs == Edited(BaseConfigs, MaxChanged)

\* the tiers the tier lists are built from: well-formed ones that do or do
\* not fit together, and malformed ones
TierPool ==
  {Tier(Int2(0), Int2(50), Int2(10)),
   Tier(Int2(50), Null, Int2(20)),
   Tier(Int2(50), Int2(100), Int2(20)),
   Tier(Int2(100), Null, Int2(30)),
   Tier(Int2(0), Int2(60), Int2(10)),
   Tier(Int2(50), Undef, Int2(20)),
   Tier(Null, Int2(50), Int2(10)),
   Tier(Int2(-1), Int2(50), Int2(10)),
   Tier(Int2(50), Int2(50), Int2(20)),
   Tier(Int2(0), Int2(50), Str)}

\* the sequences over S of length 1..n
RECURSIVE SeqsUpTo(_, _)
SeqsUpTo(S, n) ==
  IF n = 0 THEN {}
  ELSE SeqsUpTo(S, n - 1) \cup [1..n -> S]

TierLists == SeqsUpTo(TierPool, MaxTiers)

\* the tiered configurations over every tier list
TierListConfigs ==
  {[c EXCEPT !.profitTiers = ProfitTiers(TRUE, TiersArray(t))] :
     c \in {TieredConfig}, t \in TierLists}

Configs == EditedConfigs \cup TierListConfigs

\* the costs calculateStartPrice is called with
Costs ==
  {Undef, Str, NaNv, PosInf, Int2(0), Int2(-1), Int2(20), Int2(50)}

\* the costs getApplicableProfit is called with
ProfitCosts ==
  {Undef, PosInf, Int2(-1), Int2(0), Int2(20), Int2(30), Num(49999, 1000),
   Int2(50)}

----------------------------------------------------------------------------
(* The other components before their first call *)

\* the requests the server handles at a time
Clients == {"c1", "c2"}

\* the paths of pricingConfigSchema (models/SellerPricingConfig.js:3-53)
SchemaPaths ==
  {"enabled", "spentRate", "payoutRate", "desiredProfit", "fixedFee",
   "saleTax", "ebayFee", "adsFee", "tdsFee", "shippingCost", "taxRate"}

\* a pricingConfig cast to pricingConfigSchema: a strict schema keeps its own
\* paths only, so profitTiers is not stored
CastPricingConfig(cfg) == [f \in SchemaPaths \cup {"k"} |-> cfg[f]]

\* req.body.pricingConfig left out
NoPricingConfig == [getDefaultPricingConfig EXCEPT !.k = "undefined"]

\* no request in the slot; isCustom and error are empty when the response
\* does not carry them
NoRequest ==
  [kind |-> "none", pc |-> "idle", sellerId |-> "", templateId |-> "",
   pricingConfig |-> NoPricingConfig, status |-> 0, error |-> "",
   isCustom |-> "", returned |-> CastPricingConfig(NoPricingConfig),
   afterRevert |-> FALSE]

\* an empty collection and no request
InitStore ==
  /\ sellerPricingConfigs = <<>>
  /\ requests = [c \in Clients |-> NoRequest]
  /\ reverted = {}

\* no leave request being handled in the slot
NoLeaveCall ==
  [kind |-> "none", pc |-> "idle", user |-> "", id |-> 0, status |-> "",
   startDate |-> 0, endDate |-> 0, date |-> 0, code |-> 0]

\* no LeaveRequest documents and no request
InitLeaves ==
  /\ leaveRequests = {}
  /\ created = 0
  /\ leaveCalls = [c \in Clients |-> NoLeaveCall]

\* the other components as the server starts them
InitElsewhere == InitCache /\ InitStore /\ InitLeaves

----------------------------------------------------------------------------
(* The calls *)

NoCall == [op |-> "none", cost |-> Undef, out |-> Return(Undef, FALSE)]

Init ==
  /\ config \in Configs
  /\ ret = NoCall
  /\ earlier = NoCall
  /\ InitElsewhere

\* the caller's configuration after validateProfitTiers ran on its tiers
\* with sorted the array line 421 produced
ConfigAfterSort(cfg, sorted) ==
  [cfg EXCEPT !.profitTiers.tiers.items = TiersAfterSort(@, sorted)]

\* the caller's configuration after validatePricingConfig, which sorts only
\* when it reaches validateProfitTiers
ConfigAfterValidate(cfg, sorted) ==
  IF cfg.k = "object" /\ TiersEnabled(cfg) THEN ConfigAfterSort(cfg, sorted)
  ELSE cfg

CallValidatePricingConfig ==
  /\ ret = NoCall
  /\ \E s \in SortedOrders(config.profitTiers.tiers.items) :
       /\ ret' = [op |-> "validatePricingConfig", cost |-> Undef,
                  out |-> validatePricingConfigSorted(config, s)]
       /\ config' = ConfigAfterValidate(config, s)
  /\ UNCHANGED <<earlier, elsewhere>>

CallValidateProfitTiers ==
  /\ ret = NoCall
  /\ \E s \in SortedOrders(config.profitTiers.tiers.items) :
       /\ ret' = [op |-> "validateProfitTiers", cost |-> Undef,
                  out |-> validateProfitTiersSorted(config.profitTiers.tiers, s)]
       /\ config' = ConfigAfterSort(config, s)
  /\ UNCHANGED <<earlier, elsewhere>>

CallGetApplicableProfit ==
  /\ ret = NoCall
  /\ config.k = "object"
  /\ \E cost \in ProfitCosts :
       ret' = [op |-> "getApplicableProfit", cost |-> cost,
               out |-> Return(getApplicableProfit(cost, config), FALSE)]
  /\ UNCHANGED <<config, earlier, elsewhere>>

CallCalculateStartPrice ==
  /\ ret = NoCall
  /\ \E cost \in Costs :
       \E s \in SortedOrders(config.profitTiers.tiers.items) :
         /\ ret' = [op |-> "calculateStartPrice", cost |-> cost,
                    out |-> calculateStartPriceSorted(config, cost, s)]
         /\ config' = ConfigAfterValidate(config, s)
  /\ UNCHANGED <<earlier, elsewhere>>

\* the caller has taken the outcome; the next call starts from here
Discard ==
  /\ ret # NoCall
  /\ ret' = NoCall
  /\ UNCHANGED <<config, earlier, elsewhere>>

Next ==
  \/ CallValidatePricingConfig
  \/ CallValidateProfitTiers
  \/ CallGetApplicableProfit
  \/ CallCalculateStartPrice
  \/ Discard

Spec == Init /\ [][Next]_vars

\* Tier validation alone: validateProfitTiers called on tier lists

\* every tier list of the inputs, in the tiered configuration
TierConfigs ==
  TierListConfigs
    \cup {[TieredConfig EXCEPT !.profitTiers.tiers = t] : t \in TierListValues}

InitTiers ==
  /\ config \in TierConfigs
  /\ ret = NoCall
  /\ earlier = NoCall
  /\ InitElsewhere

NextTiers ==
  \/ CallValidateProfitTiers
  \/ Discard

SpecTiers == InitTiers /\ [][NextTiers]_vars

\* Repeated calls: the caller keeps the outcome of one calculateStartPrice
\* call and goes on calling

\* the configurations of the repeated calls: the base configurations and
\* those one field away from them whose tiers the sort orders in one way (a
\* given engine orders the others in one way too, but which is not known)
RepeatConfigs ==
  {c \in EditOnce(BaseConfigs) :
     ~InconsistentComparator(c.profitTiers.tiers.items)}

InitRepeat ==
  /\ config \in RepeatConfigs
  /\ ret = NoCall
  /\ earlier = NoCall
  /\ InitElsewhere

\* the caller keeps the outcome of the calculateStartPrice call just made
Remember ==
  /\ ret.op = "calculateStartPrice"
  /\ earlier = NoCall
  /\ earlier' = ret
  /\ ret' = NoCall
  /\ UNCHANGED <<config, elsewhere>>

NextRepeat ==
  \/ Next
  \/ Remember

SpecRepeat == InitRepeat /\ [][NextRepeat]_vars

----------------------------------------------------------------------------
(* Vocabulary of the properties *)

Called(op) == ret.op = op
Returned == ret.out.kind = "return"
Thrown == ret.out.kind = "throw"

\* v is a finite number
IsNumber(v) == v.k = "number"
\* v is absent: null or undefined
IsAbsent(v) == v.k \in {"null", "undefined"}
\* comparisons of finite numbers
Less(a, b) == a.n * b.d < b.n * a.d
Positive(v) == IsNumber(v) /\ v.n > 0
NonNegative(v) == IsNumber(v) /\ v.n >= 0
Within0To100(v) == IsNumber(v) /\ v.n >= 0 /\ v.n <= 100 * v.d

\* the value a field contributes: its default when it is left out
FieldOr(v, dflt) == IF v.k = "undefined" THEN dflt ELSE v

ConfigErrorTexts ==
  {"Pricing config is required", "is required and must be a positive number",
   "must be between 0 and 100", "must be a non-negative number"}
TierErrorTexts ==
  {"At least one profit tier is required when tiered profit is enabled",
   "minCost must be a non-negative number", "profit must be a positive number",
   "maxCost must be greater than minCost",
   "Only the last tier can have maxCost as null/unlimited",
   "Ranges cannot overlap", "Ranges must be continuous (no gaps)"}
InputErrorText == "Invalid Amazon cost. Must be a positive number."
FeeConfigErrorText ==
  "Invalid fee configuration. Fee multiplier must be positive. Check your percentage values."
ComputationErrorText ==
  "Calculated price is invalid. Please check your pricing configuration."

\* validatePricingConfig accepts the configuration
PassesValidate(cfg) == \E o \in validatePricingConfig(cfg) : ~Threw(o)

\* the fee multiplier as the specification writes it
SpecFeeMultiplier(cfg) ==
  Sub(Int2(1),
      Mul(Add(Int2(1), Div(FieldOr(cfg.saleTax, Int2(0)), Int2(100))),
          Div(Add(Add(FieldOr(cfg.ebayFee, Num(129, 10)), FieldOr(cfg.adsFee, Int2(3))),
                  FieldOr(cfg.tdsFee, Int2(1))),
              Int2(100))))

\* cost + shippingCost + cost * taxRate / 100
SpecBuyingPrice(cfg, cost) ==
  Add(Add(cost, FieldOr(cfg.shippingCost, Int2(0))),
      Div(Mul(cost, FieldOr(cfg.taxRate, Int2(10))), Int2(100)))

\* the unrounded price as the specification writes it
SpecPrice(cfg, cost) ==
  Div(Add(Div(Add(getApplicableProfit(cost, cfg),
                  Mul(SpecBuyingPrice(cfg, cost), cfg.spentRate)),
              cfg.payoutRate),
          Div(FieldOr(cfg.fixedFee, Int2(0)), cfg.payoutRate)),
      SpecFeeMultiplier(cfg))

\* x rounded to hundredths, halves away from zero (x >= 0 here)
RoundCents(x) ==
  IF ~IsNumber(x) THEN x
  ELSE LET cents == (x.n * 100) \div x.d
           rest == (x.n * 100) % x.d
       IN  Num(IF 2 * rest >= x.d THEN cents + 1 ELSE cents, 100)

----------------------------------------------------------------------------
(* C1 *)

\* C1 (as claimed): for every configuration validate accepts and every
\* finite cost > 0 with a positive fee multiplier, calculateStartPrice
\* returns a price, and the price is the specification's formula rounded to
\* two decimals.
C1_PriceIsFormula ==
  (/\ Called("calculateStartPrice")
   /\ PassesValidate(config)
   /\ Positive(ret.cost)
   /\ Positive(SpecFeeMultiplier(config)))
  => (/\ Returned
      /\ ret.out.value.price = RoundCents(SpecPrice(config, ret.cost)))

\* Supporting C1: whenever a price is returned it is the formula's value
\* rounded to two decimals, and the worked example gives 34.99.
C1_ReturnedPriceIsFormula ==
  (Called("calculateStartPrice") /\ Returned)
  => (/\ ret.out.value.price = RoundCents(SpecPrice(config, ret.cost))
      /\ (config = ScenarioConfig /\ ret.cost = Int2(20)
            => ret.out.value.price = Num(3499, 100)))

----------------------------------------------------------------------------
(* C2 *)

\* C2 (as claimed): for a valid flat-profit configuration and a cost > 0,
\* the result calculateStartPrice returns has price > 0 and a feeMultiplier
\* in (0, 1].
C2_PositivePriceAndMultiplier ==
  (/\ Called("calculateStartPrice")
   /\ ~TiersEnabled(config)
   /\ Positive(ret.cost)
   /\ Returned)
  => (/\ Positive(ret.out.value.price)
      /\ Positive(ret.out.value.breakdown.feeMultiplier)
      /\ ~Less(Int2(1), ret.out.value.breakdown.feeMultiplier))

----------------------------------------------------------------------------
(* The tier invariants, as the specification states them *)

TheTiers == config.profitTiers.tiers

\* a tier that is well-formed by itself
TierOk(t) ==
  /\ NonNegative(t.minCost)
  /\ Positive(t.profit)
  /\ (IsAbsent(t.maxCost) \/ (IsNumber(t.maxCost) /\ Less(t.minCost, t.maxCost)))

\* the tiers in ascending minCost order (equal minCosts in the order given)
Ascending(items) ==
  LET n == Len(items)
      p == CHOOSE q \in Permutations1(n) :
             \A i, j \in 1..n : i < j =>
               \/ Less(items[q[i]].minCost, items[q[j]].minCost)
               \/ (items[q[i]].minCost = items[q[j]].minCost /\ q[i] < q[j])
  IN  [i \in 1..n |-> items[p[i]]]

\* tier i of s ends where tier i + 1 starts
Fits(s, i) == IsNumber(s[i].maxCost) /\ s[i].maxCost = s[i + 1].minCost

TierInvariants(tiers) ==
  /\ tiers.k = "array"
  /\ Len(tiers.items) > 0
  /\ \A i \in 1..Len(tiers.items) : TierOk(tiers.items[i])
  /\ LET s == Ascending(tiers.items)
     IN  \A i \in 1..(Len(s) - 1) : Fits(s, i)

\* the tier with the greatest minCost has a bounded maxCost
LastTierBounded(tiers) ==
  LET s == Ascending(tiers.items)
  IN  ~IsAbsent(s[Len(s)].maxCost)

----------------------------------------------------------------------------
(* C3 *)

\* C3: validateProfitTiers returns true exactly when the tier list satisfies
\* the tier invariants and throws a tier error otherwise; a bounded last
\* tier is accepted and only warned about.
C3_ValidateTiersIffInvariants ==
  Called("validateProfitTiers")
  => (/\ Returned <=> TierInvariants(TheTiers)
      /\ Returned => ret.out.value = TRUE
      /\ Returned => (ret.out.warned <=> LastTierBounded(TheTiers))
      /\ Thrown => ret.out.text \in TierErrorTexts)

\* reached: a list of two tiers whose last tier is bounded is accepted with
\* the warning
C3_Witness ==
  /\ Called("validateProfitTiers")
  /\ Returned
  /\ ret.out.warned
  /\ Len(TheTiers.items) = 2

----------------------------------------------------------------------------
(* C4 *)

\* the first position of s whose tier does not end where the next starts
FirstMisfit(s) ==
  LET bad == {i \in 1..(Len(s) - 1) : ~Fits(s, i)}
  IN  IF bad = {} THEN 0 ELSE CHOOSE i \in bad : \A j \in bad : i <= j

\* C4: with every tier well-formed by itself, the first adjacent pair (in
\* ascending minCost order) that does not fit decides the error: an overlap
\* error when tier i's maxCost is above tier i+1's minCost, a continuity
\* error when it is below, naming the sorted positions i and i+1.
C4_OverlapAndGapErrors ==
  (/\ Called("validateProfitTiers")
   /\ TheTiers.k = "array"
   /\ \A i \in 1..Len(TheTiers.items) : TierOk(TheTiers.items[i]))
  => LET s == Ascending(TheTiers.items)
         i == FirstMisfit(s)
     IN  /\ (i # 0 /\ IsNumber(s[i].maxCost) /\ Less(s[i + 1].minCost, s[i].maxCost))
              => (/\ Thrown
                  /\ ret.out.text = "Ranges cannot overlap"
                  /\ ret.out.idx = <<i, i + 1>>)
         /\ (i # 0 /\ IsNumber(s[i].maxCost) /\ Less(s[i].maxCost, s[i + 1].minCost))
              => (/\ Thrown
                  /\ ret.out.text = "Ranges must be continuous (no gaps)"
                  /\ ret.out.idx = <<i, i + 1>>)

\* reached: three well-formed tiers supplied out of order, the first two in
\* ascending order fit, and the overlap of the second and third is named
C4_Witness ==
  /\ Called("validateProfitTiers")
  /\ Thrown
  /\ ret.out.text = "Ranges cannot overlap"
  /\ ret.out.idx = <<2, 3>>
  /\ \A i \in 1..Len(TheTiers.items) : TierOk(TheTiers.items[i])
  /\ Less(TheTiers.items[3].minCost, TheTiers.items[1].minCost)

----------------------------------------------------------------------------
(* C5 *)

\* cost >= minCost and (maxCost is null or cost < maxCost), compared as
\* JavaScript compares
InTier(cost, t) ==
  /\ Le(t.minCost, cost)
  /\ (t.maxCost = Null \/ Lt(cost, t.maxCost))

\* tier i is the first tier, in the order supplied, the cost lies in
FirstInTier(cost, items, i) ==
  /\ InTier(cost, items[i])
  /\ \A j \in 1..(i - 1) : ~InTier(cost, items[j])

TiersInUse == TiersEnabled(config) /\ TheTiers.k = "array" /\ Len(TheTiers.items) > 0

\* C5: with tiered profit enabled and a non-empty list, getApplicableProfit
\* returns the profit of the first tier, in the order supplied, with
\* minCost <= cost < maxCost (maxCost null: no upper limit); on the tiers
\* [{0,50,10},{50,null,20}] costs 0, 30 and 49.999 give 10 and cost 50 gives 20.
C5_FirstMatchingTierInOrder ==
  (Called("getApplicableProfit") /\ TiersInUse)
  => (/\ \A i \in 1..Len(TheTiers.items) :
           FirstInTier(ret.cost, TheTiers.items, i)
             => ret.out.value = TheTiers.items[i].profit
      /\ (TheTiers.items = ScenarioTiers
            /\ ret.cost \in {Int2(0), Int2(30), Num(49999, 1000)})
           => ret.out.value = Int2(10)
      /\ (TheTiers.items = ScenarioTiers /\ ret.cost = Int2(50))
           => ret.out.value = Int2(20))

\* reached: the cost lies in two tiers with different profits and the one
\* supplied first, which is not the one with the smaller minCost, is used
C5_Witness ==
  /\ Called("getApplicableProfit")
  /\ TiersInUse
  /\ \E i, j \in 1..Len(TheTiers.items) :
       /\ i < j
       /\ FirstInTier(ret.cost, TheTiers.items, i)
       /\ InTier(ret.cost, TheTiers.items[j])
       /\ Less(TheTiers.items[j].minCost, TheTiers.items[i].minCost)
       /\ TheTiers.items[i].profit # TheTiers.items[j].profit
       /\ ret.out.value = TheTiers.items[i].profit

----------------------------------------------------------------------------
(* C6 *)

\* no tier of the list matches the cost
NoTierMatches(cost, items) ==
  \A i \in 1..Len(items) : ~InTier(cost, items[i])

\* C6: getApplicableProfit returns config.desiredProfit when profitTiers is
\* absent or not enabled, when the tier list is empty (or no list), and when
\* no tier matches the cost; in every other case it returns the profit of a
\* matching tier.  It never throws.
C6_FallbackToDesiredProfit ==
  Called("getApplicableProfit")
  => (/\ Returned
      /\ IF ~TiersInUse \/ NoTierMatches(ret.cost, TheTiers.items)
         THEN ret.out.value = config.desiredProfit
         ELSE \E i \in 1..Len(TheTiers.items) :
                /\ InTier(ret.cost, TheTiers.items[i])
                /\ ret.out.value = TheTiers.items[i].profit)

\* reached: tiers enabled and accepted by validateProfitTiers, a valid cost
\* that no tier matches, and the flat profit returned
C6_Witness ==
  /\ Called("getApplicableProfit")
  /\ TiersInUse
  /\ TierInvariants(TheTiers)
  /\ Positive(ret.cost)
  /\ NoTierMatches(ret.cost, TheTiers.items)
  /\ ret.out.value = config.desiredProfit
  /\ IsNumber(config.desiredProfit)

----------------------------------------------------------------------------
(* C7 *)

\* the costs the coverage of an accepted tier list is probed at
CoverCosts ==
  {Int2(0), Int2(20), Int2(40), Num(49999, 1000), Int2(50), Int2(75),
   Int2(100), Int2(1000)}

\* the tiers of items that match the cost under getApplicableProfit's test
Matching(cost, items) == {i \in 1..Len(items) : TierMatches(cost, items[i])}

\* the cost is at least the smallest minCost and below the last tier's
\* maxCost; a last tier without a maxCost (null or omitted, the two forms
\* validateProfitTiers accepts as unlimited) covers every such cost
Covered(cost, items) ==
  LET s == Ascending(items)
      last == s[Len(s)]
  IN  /\ ~Less(cost, s[1].minCost)
      /\ (IsAbsent(last.maxCost) \/ Less(cost, last.maxCost))

\* C7 (as claimed): for a tier list validateProfitTiers accepts and every
\* cost c >= 0, at most one tier matches c, and exactly one when c is at
\* least the smallest minCost and below the last tier's maxCost (any c when
\* the last tier is unbounded): no gap inside the covered range.
C7_AcceptedTiersPartitionCosts ==
  (Called("validateProfitTiers") /\ Returned)
  => \A c \in CoverCosts :
       /\ Cardinality(Matching(c, TheTiers.items)) <= 1
       /\ Covered(c, TheTiers.items)
            => Cardinality(Matching(c, TheTiers.items)) = 1

\* what does hold: the same with the accepted lists whose tiers all write
\* the missing upper bound as null
C7_NullUnboundedTiersPartitionCosts ==
  (/\ Called("validateProfitTiers")
   /\ Returned
   /\ \A i \in 1..Len(TheTiers.items) : TheTiers.items[i].maxCost.k # "undefined")
  => \A c \in CoverCosts :
       /\ Cardinality(Matching(c, TheTiers.items)) <= 1
       /\ Covered(c, TheTiers.items)
            => Cardinality(Matching(c, TheTiers.items)) = 1

----------------------------------------------------------------------------
(* C8 *)

\* missing, null, non-numeric, zero or negative
NotAPositiveNumber(v) == ~Positive(v)

\* C8: with tiered profit disabled, validatePricingConfig throws a
\* configuration error whenever spentRate, payoutRate or desiredProfit is
\* missing, null, non-numeric, zero or negative (the error names such a
\* field), and it throws for an absent or non-object config.
C8_FlatModeRequiresRatesAndProfit ==
  Called("validatePricingConfig")
  => (/\ config.k # "object"
        => (Thrown /\ ret.out.text = "Pricing config is required")
      /\ (/\ config.k = "object"
          /\ ~TiersEnabled(config)
          /\ \E i \in 1..3 : NotAPositiveNumber(config[requiredFields[i]]))
        => (/\ Thrown
            /\ ret.out.text = "is required and must be a positive number"
            /\ ret.out.field \in {"spentRate", "payoutRate", "desiredProfit"}
            /\ NotAPositiveNumber(config[ret.out.field])))

\* reached: a flat configuration whose only fault is a negative payoutRate
\* is rejected
C8_Witness ==
  /\ Called("validatePricingConfig")
  /\ ~TiersEnabled(config)
  /\ config.payoutRate = Int2(-1)
  /\ Positive(config.spentRate)
  /\ Positive(config.desiredProfit)
  /\ Thrown
  /\ ret.out.field = "payoutRate"

----------------------------------------------------------------------------
(* C9 and C10 *)

\* every percentage field is absent or a number in [0, 100]
PercentagesInRange(cfg) ==
  \A i \in 1..Len(percentageFields) :
    IsAbsent(cfg[percentageFields[i]]) \/ Within0To100(cfg[percentageFields[i]])

\* fixedFee and shippingCost are absent or numbers >= 0
FeesNonNegative(cfg) ==
  \A i \in 1..Len(nonNegativeFields) :
    IsAbsent(cfg[nonNegativeFields[i]]) \/ NonNegative(cfg[nonNegativeFields[i]])

\* C9: with tiered profit enabled, validatePricingConfig accepts the config
\* exactly when the tier list satisfies the tier invariants and the
\* percentage and non-negative fields are in range, whatever spentRate,
\* payoutRate and desiredProfit are; an invalid tier list is rejected with a
\* tier error.
C9_TieredModeSkipsRequiredFields ==
  (Called("validatePricingConfig") /\ config.k = "object" /\ TiersEnabled(config))
  => (/\ Returned <=> (/\ TierInvariants(TheTiers)
                       /\ PercentagesInRange(config)
                       /\ FeesNonNegative(config))
      /\ ~TierInvariants(TheTiers)
           => (Thrown /\ ret.out.text \in TierErrorTexts))

\* reached: a tiered configuration with a null rate is accepted
C9_Witness ==
  /\ Called("validatePricingConfig")
  /\ TiersEnabled(config)
  /\ config.spentRate = Null
  /\ Returned

\* C10: in flat and in tiered mode validatePricingConfig throws whenever a
\* present percentage field is non-numeric or outside [0, 100] or a present
\* fixedFee or shippingCost is non-numeric or negative; with the mode's own
\* requirements met, absent fields and the boundary values 0 and 100 are
\* accepted.
C10_RangesCheckedInBothModes ==
  (Called("validatePricingConfig") /\ config.k = "object")
  => (/\ ~(PercentagesInRange(config) /\ FeesNonNegative(config)) => Thrown
      /\ (/\ PercentagesInRange(config)
          /\ FeesNonNegative(config)
          /\ IF TiersEnabled(config) THEN TierInvariants(TheTiers)
             ELSE \A i \in 1..3 : Positive(config[requiredFields[i]]))
           => Returned)

\* reached: a flat configuration with a percentage of exactly 100 is accepted
C10_Witness ==
  /\ Called("validatePricingConfig")
  /\ ~TiersEnabled(config)
  /\ config.saleTax = Int2(100)
  /\ Returned

----------------------------------------------------------------------------
(* C11 *)

\* the configuration meets what the specification asks of a valid one: the
\* mode's own requirement (a valid tier list, or positive rates and profit)
\* and fields within their ranges
ConfigValid(cfg) ==
  /\ cfg.k = "object"
  /\ IF TiersEnabled(cfg) THEN TierInvariants(cfg.profitTiers.tiers)
     ELSE \A i \in 1..Len(requiredFields) : Positive(cfg[requiredFields[i]])
  /\ PercentagesInRange(cfg)
  /\ FeesNonNegative(cfg)

\* C11: for a configuration validate accepts and a finite cost > 0,
\* calculateStartPrice throws the fee error, and returns no price, whenever
\* 1 - (1 + saleTax/100) * (ebayFee + adsFee + tdsFee)/100 is zero or
\* negative: exactly 0 (ebayFee 100, adsFee, tdsFee, saleTax 0) and negative
\* (ebayFee 90, adsFee 10, tdsFee 10, saleTax 0) included, and the error is
\* not the later invalid-price error.
C11_FeeErrorWhenMultiplierNotPositive ==
  (Called("calculateStartPrice") /\ Positive(ret.cost) /\ ConfigValid(config))
  => (/\ ~Positive(SpecFeeMultiplier(config))
        => (Thrown /\ ret.out.text = FeeConfigErrorText)
      /\ config \in {ZeroFeeConfig, NegativeFeeConfig}
        => (Thrown /\ ret.out.text = FeeConfigErrorText))

\* reached: the fees add up to exactly 100 per cent and the call throws the
\* fee error
C11_Witness ==
  /\ Called("calculateStartPrice")
  /\ config = ZeroFeeConfig
  /\ ret.cost = Int2(20)
  /\ SpecFeeMultiplier(config) = Int2(0)
  /\ Thrown
  /\ ret.out.text = FeeConfigErrorText

----------------------------------------------------------------------------
(* C12 *)

\* C12 (as claimed): for a configuration validate accepts,
\* calculateStartPrice throws the invalid-cost error for every cost that is
\* missing, non-numeric, zero, negative or not finite (NaN, +Infinity).
C12_InvalidCostIsInputError ==
  (Called("calculateStartPrice") /\ ~Positive(ret.cost) /\ ConfigValid(config))
  => (Thrown /\ ret.out.text = InputErrorText)

\* what does hold: the same for every such cost but +Infinity, and for
\* +Infinity no price is returned
C12_InvalidFiniteCostIsInputError ==
  (Called("calculateStartPrice") /\ ~Positive(ret.cost) /\ ConfigValid(config))
  => (/\ Thrown
      /\ ret.cost # PosInf => ret.out.text = InputErrorText
      /\ ret.cost = PosInf
           => ret.out.text \in {FeeConfigErrorText, ComputationErrorText})

----------------------------------------------------------------------------
(* C13 *)

\* C13 (as claimed): whenever calculateStartPrice returns a price, the
\* spentRate and payoutRate of the configuration are numbers > 0, in flat
\* and in tiered mode.
C13_PriceOnlyFromPositiveRates ==
  (Called("calculateStartPrice") /\ Returned)
  => (Positive(config.spentRate) /\ Positive(config.payoutRate))

\* what does hold: the same in flat mode
C13_FlatPriceOnlyFromPositiveRates ==
  (Called("calculateStartPrice") /\ Returned /\ ~TiersEnabled(config))
  => (Positive(config.spentRate) /\ Positive(config.payoutRate))

----------------------------------------------------------------------------
(* C14 *)

\* the fields of a complete breakdown
BreakdownFields ==
  {"cost", "shipping", "taxRate", "tax", "buyingPriceUSD", "buyingPriceINR",
   "applicableProfit", "profitTier", "desiredProfit", "profitComponent",
   "payoutUSD", "fixedFee", "withFixedFee", "feeMultiplier", "finalPrice"}

\* the breakdown fields the calculation computes
ComputedFields ==
  {"tax", "buyingPriceUSD", "buyingPriceINR", "profitComponent", "payoutUSD",
   "withFixedFee", "feeMultiplier", "finalPrice"}

\* C14: a calculateStartPrice call ends either in an error that carries no
\* result, or in a complete result: the price before rounding is a finite
\* number > 0, the returned price is a number (never NaN), and the breakdown
\* has every field, the computed ones finite numbers; so also when tiers
\* are enabled, no tier matches and desiredProfit is null or absent.
C14_ErrorOrCompleteResult ==
  Called("calculateStartPrice")
  => \/ (Thrown /\ DOMAIN ret.out = {"kind", "text", "field", "idx"})
     \/ (/\ Returned
         /\ DOMAIN ret.out.value = {"price", "breakdown"}
         /\ Positive(SpecPrice(config, ret.cost))
         /\ IsNumber(ret.out.value.price)
         /\ DOMAIN ret.out.value.breakdown = BreakdownFields
         /\ \A f \in ComputedFields : IsNumber(ret.out.value.breakdown[f]))

\* reached: tiers are enabled, no tier matches the cost, desiredProfit is
\* null, and a complete result is returned
C14_Witness ==
  /\ Called("calculateStartPrice")
  /\ TiersEnabled(config)
  /\ NoTierMatches(ret.cost, TheTiers.items)
  /\ config.desiredProfit = Null
  /\ Returned
  /\ IsNumber(ret.out.value.price)

----------------------------------------------------------------------------
(* C15 *)

\* the cost is missing, non-numeric, NaN, zero or negative
CostRejected(cost) == cost.k \in {"undefined", "null", "string", "NaN"}
                      \/ (IsNumber(cost) /\ cost.n <= 0)

\* C15: calculateStartPrice checks the configuration, then the cost, then
\* the fee multiplier, then the final price, and the first check that fails
\* gives the error: a configuration validate rejects never yields a price
\* and fails with a configuration or tier error even when the cost is
\* invalid too; a valid configuration with an invalid cost fails with the
\* cost error even when the fees are invalid too; with a valid cost the fee
\* error comes before the invalid-price error.
C15_FirstFailingCheckDecides ==
  Called("calculateStartPrice")
  => LET valid == ConfigValid(config)
         feesOk == Positive(SpecFeeMultiplier(config))
     IN  /\ ~valid
           => (Thrown /\ ret.out.text \in ConfigErrorTexts \cup TierErrorTexts)
         /\ (valid /\ CostRejected(ret.cost))
           => (Thrown /\ ret.out.text = InputErrorText)
         /\ (valid /\ Positive(ret.cost) /\ ~feesOk)
           => (Thrown /\ ret.out.text = FeeConfigErrorText)
         /\ (Thrown /\ ret.out.text = ComputationErrorText)
           => (valid /\ ~CostRejected(ret.cost) /\ feesOk)

\* reached: the configuration and the cost are both invalid and the error
\* is the configuration's
C15_Witness ==
  /\ Called("calculateStartPrice")
  /\ ~ConfigValid(config)
  /\ CostRejected(ret.cost)
  /\ Thrown
  /\ ret.out.text \in ConfigErrorTexts \cup TierErrorTexts

----------------------------------------------------------------------------
(* C16 *)

\* items in the order the permutation p gives
Permuted(items, p) == [i \in 1..Len(items) |-> items[p[i]]]

\* C16: whether validateProfitTiers accepts a tier list does not depend on
\* the order the tiers are supplied in: every permutation of the list is
\* accepted if the list is, and rejected if the list is.
C16_TierOrderIrrelevant ==
  (Called("validateProfitTiers") /\ TheTiers.k = "array")
  => \A p \in Permutations1(Len(TheTiers.items)) :
       \A o \in validateProfitTiers(TiersArray(Permuted(TheTiers.items, p))) :
         Threw(o) <=> Thrown

\* reached: a list of three tiers supplied in descending order is accepted
C16_Witness ==
  /\ Called("validateProfitTiers")
  /\ Returned
  /\ Len(TheTiers.items) = 3
  /\ Less(TheTiers.items[2].minCost, TheTiers.items[1].minCost)
  /\ Less(TheTiers.items[3].minCost, TheTiers.items[2].minCost)

----------------------------------------------------------------------------
(* C17 *)

----------------------------------------------------------------------------
(* C18 *)

\* C18: validatePricingConfig, validateProfitTiers, getApplicableProfit and
\* calculateStartPrice leave the caller's configuration as it was, whether
\* they return or throw: every field, and the order of
\* config.profitTiers.tiers, is the same after the call as before it.
C18_ConfigUnchanged == [][config' = config]_vars

\* reached: validatePricingConfig accepted a tier list supplied in
\* descending order (which the sort reorders in its copy), and the list is
\* in the supplied order
C18_Witness ==
  /\ Called("validatePricingConfig")
  /\ Returned
  /\ TiersEnabled(config)
  /\ Len(TheTiers.items) = 2
  /\ Less(TheTiers.items[2].minCost, TheTiers.items[1].minCost)

----------------------------------------------------------------------------
(* C19 *)

\* the cost range the breakdown shows for tier t: its minCost and its
\* maxCost, the infinity sign for a null maxCost
RangeOf(t) ==
  [text |-> "min - max", min |-> t.minCost,
   max |-> IF t.maxCost = Null THEN PosInf ELSE t.maxCost]

\* C19: in a result calculateStartPrice returns, breakdown.finalPrice is
\* the returned price; the breakdown's profit is the profit resolved for
\* the cost; profitTier tells whether tiered profit is enabled, and when it
\* is, shows the cost range of the tier whose profit was used, or "N/A"
\* exactly when no tier matched and the profit is desiredProfit.
C19_BreakdownConsistent ==
  (Called("calculateStartPrice") /\ Returned)
  => LET v == ret.out.value
         b == v.breakdown
         items == TheTiers.items
     IN  /\ b.finalPrice = v.price
         /\ b.profitTier.enabled = TiersEnabled(config)
         /\ b.profitTier.profit = b.applicableProfit
         /\ ~TiersEnabled(config) => b.applicableProfit = config.desiredProfit
         /\ TiersEnabled(config)
              => /\ b.profitTier.costRange = NoCostRange
                      <=> NoTierMatches(ret.cost, items)
                 /\ NoTierMatches(ret.cost, items)
                      => b.applicableProfit = config.desiredProfit
                 /\ \A i \in 1..Len(items) :
                      FirstInTier(ret.cost, items, i)
                        => /\ b.applicableProfit = items[i].profit
                           /\ b.profitTier.costRange = RangeOf(items[i])

\* reached: tiers are enabled, the cost is in no tier, and the result shows
\* desiredProfit with the range "N/A"
C19_Witness ==
  /\ Called("calculateStartPrice")
  /\ Returned
  /\ TiersEnabled(config)
  /\ NoTierMatches(ret.cost, TheTiers.items)
  /\ ret.out.value.breakdown.profitTier.costRange = NoCostRange
  /\ ret.out.value.breakdown.applicableProfit = Int2(500)

----------------------------------------------------------------------------
(* C20 *)

\* the unrounded price as the header comment of the module writes it: the
\* fixed fee added as given, after the division by payoutRate
HeaderPrice(cfg, cost) ==
  Div(Add(Div(Add(getApplicableProfit(cost, cfg),
                  Mul(SpecBuyingPrice(cfg, cost), cfg.spentRate)),
              cfg.payoutRate),
          FieldOr(cfg.fixedFee, Int2(0))),
      FeeMultiplier(FieldOr(cfg.saleTax, Int2(0)),
                    FieldOr(cfg.ebayFee, Num(129, 10)),
                    FieldOr(cfg.adsFee, Int2(3)),
                    FieldOr(cfg.tdsFee, Int2(1))))

\* C20 (as claimed): the price calculateStartPrice returns is the header's
\* formula, ((desiredProfit + buyingPrice * spentRate) / payoutRate
\* + fixedFee) / (1 - (1 + saleTax/100) * (ebayFee/100 + adsFee/100
\* + tdsFee/100)), rounded to two decimals, for every valid configuration
\* and cost.
C20_PriceIsHeaderFormula ==
  (Called("calculateStartPrice") /\ Returned)
  => ret.out.value.price = RoundCents(HeaderPrice(config, ret.cost))

\* what does hold: the same when the fixed fee is absent or 0
C20_PriceIsHeaderFormulaWithoutFixedFee ==
  (/\ Called("calculateStartPrice")
   /\ Returned
   /\ (IsAbsent(config.fixedFee) \/ config.fixedFee = Int2(0)))
  => ret.out.value.price = RoundCents(HeaderPrice(config, ret.cost))

----------------------------------------------------------------------------
(* C23 *)

\* the tier of the accepted list with the greatest minCost
LastTier(items) == Ascending(items)[Len(items)]

\* C23: validation and resolution agree on which tier is unbounded: for a
\* tier list validateProfitTiers accepts whose last tier (greatest minCost)
\* has no upper bound, its maxCost null or left out, getApplicableProfit
\* returns that tier's profit for every cost at or above its minCost, and
\* never the flat desiredProfit.
C23_UnboundedLastTierResolves ==
  (/\ Called("validateProfitTiers")
   /\ Returned
   /\ TiersEnabled(config)
   /\ IsAbsent(LastTier(TheTiers.items).maxCost))
  => \A c \in CoverCosts :
       ~Less(c, LastTier(TheTiers.items).minCost)
         => getApplicableProfit(c, config) = LastTier(TheTiers.items).profit

\* what does hold: the same when the last tier writes its missing upper bound
\* as null
C23_NullLastTierResolves ==
  (/\ Called("validateProfitTiers")
   /\ Returned
   /\ TiersEnabled(config)
   /\ LastTier(TheTiers.items).maxCost.k = "null")
  => \A c \in CoverCosts :
       ~Less(c, LastTier(TheTiers.items).minCost)
         => getApplicableProfit(c, config) = LastTier(TheTiers.items).profit

----------------------------------------------------------------------------
(* C24 *)

\* C24: whenever calculateStartPrice returns a price, the profit it applied
\* is a number > 0, in flat and in tiered mode, also when tiers are enabled,
\* no tier matches the cost and the profit falls back to desiredProfit.
C24_AppliedProfitPositive ==
  (Called("calculateStartPrice") /\ Returned)
  => Positive(ret.out.value.breakdown.applicableProfit)

\* what does hold: the applied profit is a number > 0 in flat mode, and in
\* tiered mode when a tier matches the cost
C24_CheckedProfitPositive ==
  (/\ Called("calculateStartPrice")
   /\ Returned
   /\ (UsesFixedProfit(config) \/ ~NoTierMatches(ret.cost, TheTiers.items)))
  => Positive(ret.out.value.breakdown.applicableProfit)

----------------------------------------------------------------------------
(* C25 *)

\* the fee and tax fields with a documented default
DefaultedFields ==
  {"saleTax", "ebayFee", "adsFee", "tdsFee", "taxRate", "fixedFee",
   "shippingCost"}

\* those whose default is 0
ZeroDefaultFields == {"saleTax", "fixedFee", "shippingCost"}

\* the prices calculateStartPrice can return (undefined for an error)
Prices(cfg, cost) ==
  {IF Threw(o) THEN Undef ELSE o.value.price : o \in calculateStartPrice(cfg, cost)}

\* C25: a fee or tax field that validation treats as absent contributes its
\* documented default to the price: giving the field as null and leaving it
\* out produce the same price, the rest of the configuration being equal.
C25_NullFieldIsDefault ==
  (Called("calculateStartPrice") /\ Returned)
  => \A f \in DefaultedFields :
       IsAbsent(config[f])
         => Prices([config EXCEPT ![f] = Null], ret.cost)
              = Prices([config EXCEPT ![f] = Undef], ret.cost)

\* what does hold: the same for the fields whose default is 0, the number
\* null is coerced to
C25_NullFieldIsZero ==
  (Called("calculateStartPrice") /\ Returned)
  => \A f \in ZeroDefaultFields :
       IsAbsent(config[f])
         => Prices([config EXCEPT ![f] = Null], ret.cost)
              = Prices([config EXCEPT ![f] = Undef], ret.cost)

----------------------------------------------------------------------------
(* ImageCache (lib/imageCache.js, src/unnamed/part_000)                    *)
(*                                                                         *)
(* A JavaScript Map iterates in insertion order, and Map.prototype.set on  *)
(* a key the Map already holds replaces the value where the key stands.    *)
(* The Map is the sequence of its entries in that order.  Time is counted  *)
(* in hours, the unit of the time to live.                                 *)

\* this.maxSize (500 in the source), scaled down
maxSize == 2

\* this.ttl, 3600000 ms: one hour
ttl == 1

\* the last hour the clock reaches, and the most get calls counted
MaxNow == 2
MaxRequests == 2

Keys == {"k1", "k2", "k3", "k4"}
Values == {"url1"}

\* the positions of key in the Map m (none or one)
MapIndex(m, key) == {i \in 1..Len(m) : m[i].key = key}

MapHas(m, key) == MapIndex(m, key) # {}

\* Map.prototype.get: the item stored under key
MapGet(m, key) == m[CHOOSE i \in MapIndex(m, key) : TRUE].item

\* Map.prototype.delete
MapDelete(m, key) == SelectSeq(m, LAMBDA e : e.key # key)

\* Map.prototype.set: a held key keeps its place, a new key goes last
MapSet(m, key, item) ==
  IF MapHas(m, key)
    THEN [i \in 1..Len(m) |->
            IF m[i].key = key THEN [key |-> key, item |-> item] ELSE m[i]]
    ELSE Append(m, [key |-> key, item |-> item])

\* line 31: the cache is at capacity
AtCapacity_Above(m) == Len(m) > maxSize

AtCapacity(m) == Len(m) >= maxSize

\* line 32: this.cache.keys().next().value
firstKey(m) == m[1].key

\* lines 31-35: the Map after the eviction step of set
AfterEviction(m) ==
  IF AtCapacity(m) THEN MapDelete(m, firstKey(m)) ELSE m

\* lines 57-58: the item is older than the time to live at hour t
Expired(item, t) == t - item.timestamp > ttl

\* lines 95-100: the Map after one run of the cleanup callback at hour t
Cleaned(m, t) == SelectSeq(m, LAMBDA e : ~Expired(e.item, t))

\* the order of last use once key was used, and once key left the cache
Used(u, key) == Append(SelectSeq(u, LAMBDA k : k # key), key)

Dropped(u, key) == SelectSeq(u, LAMBDA k : k # key)

\* set(key, value), lines 29-41
Set ==
  \E key \in Keys, value \in Values :
    LET evicted == IF AtCapacity(cache) THEN firstKey(cache) ELSE ""
        kept == AfterEviction(cache)
    IN  /\ cache' = MapSet(kept, key, [data |-> value, timestamp |-> now])
        /\ usage' = Used(IF evicted = "" THEN usage ELSE Dropped(usage, evicted),
                         key)
        /\ cacheRet' = [op |-> "set", key |-> key, out |-> "",
                        evicted |-> evicted]
        /\ UNCHANGED <<hits, misses, now, cleanup, outsideCache>>

\* get(key), lines 48-66; null is the empty string
Get ==
  /\ hits + misses < MaxRequests
  /\ \E key \in Keys :
       IF ~MapHas(cache, key)
         THEN /\ misses' = misses + 1
              /\ cacheRet' = [op |-> "get", key |-> key, out |-> "",
                              evicted |-> ""]
              /\ UNCHANGED <<cache, hits, usage>>
         ELSE IF Expired(MapGet(cache, key), now)
           THEN /\ cache' = MapDelete(cache, key)
                /\ misses' = misses + 1
                /\ usage' = Dropped(usage, key)
                /\ cacheRet' = [op |-> "get", key |-> key, out |-> "",
                                evicted |-> ""]
                /\ UNCHANGED hits
           ELSE /\ hits' = hits + 1
                /\ usage' = Used(usage, key)
                /\ cacheRet' = [op |-> "get", key |-> key,
                                out |-> MapGet(cache, key).data,
                                evicted |-> ""]
                /\ UNCHANGED <<cache, misses>>
  /\ UNCHANGED <<now, cleanup, outsideCache>>

\* delete(key), lines 72-74
Delete ==
  /\ \E key \in Keys :
       /\ cache' = MapDelete(cache, key)
       /\ usage' = Dropped(usage, key)
       /\ cacheRet' = [op |-> "delete", key |-> key,
                       out |-> IF MapHas(cache, key) THEN "true" ELSE "false",
                       evicted |-> ""]
  /\ UNCHANGED <<hits, misses, now, cleanup, outsideCache>>

\* clear(), lines 79-84
Clear ==
  /\ cache' = <<>>
  /\ hits' = 0
  /\ misses' = 0
  /\ usage' = <<>>
  /\ cacheRet' = [op |-> "clear", key |-> "", out |-> "", evicted |-> ""]
  /\ UNCHANGED <<now, cleanup, outsideCache>>

\* startAutoCleanup(), lines 90-109: the interval is set
StartAutoCleanup ==
  /\ ~cleanup
  /\ cleanup' = TRUE
  /\ cacheRet' = [op |-> "startAutoCleanup", key |-> "", out |-> "",
                  evicted |-> ""]
  /\ UNCHANGED <<cache, hits, misses, now, usage, outsideCache>>

\* the interval's callback, lines 91-106
AutoCleanup ==
  /\ cleanup
  /\ cache' = Cleaned(cache, now)
  /\ usage' = SelectSeq(usage, LAMBDA k : MapHas(Cleaned(cache, now), k))
  /\ cacheRet' = [op |-> "autoCleanup", key |-> "", out |-> "", evicted |-> ""]
  /\ UNCHANGED <<hits, misses, now, cleanup, outsideCache>>

\* Date.now() moves on by an hour
Tick ==
  /\ now < MaxNow
  /\ now' = now + 1
  /\ UNCHANGED <<cache, hits, misses, cleanup, cacheRet, usage, outsideCache>>

InitImageCache ==
  /\ config = ScenarioConfig
  /\ ret = NoCall
  /\ earlier = NoCall
  /\ InitElsewhere

NextImageCache ==
  \/ Set
  \/ Get
  \/ Delete
  \/ Clear
  \/ StartAutoCleanup
  \/ AutoCleanup
  \/ Tick

SpecImageCache == InitImageCache /\ [][NextImageCache]_vars

----------------------------------------------------------------------------
(* C21 *)

\* the step is a set call that evicted an entry
SetEvicts ==
  /\ cacheRet'.op = "set"
  /\ cacheRet'.evicted # ""
  /\ (cacheRet' # cacheRet \/ cache' # cache)

\* C21: eviction is LRU: when set is called on a cache that holds maxSize
\* entries, the entry removed is the one whose last use (its last get that
\* hit, or its last set) lies furthest back, so an entry used more recently
\* than another is never evicted before that other.
C21_EvictionIsLeastRecentlyUsed ==
  [][SetEvicts => cacheRet'.evicted = Head(usage)]_vars

\* what the code keeps to: the entry removed is the one inserted first among
\* those held (first in, first out)
C21_EvictionIsFirstInserted ==
  [][SetEvicts => cacheRet'.evicted = firstKey(cache)]_vars

----------------------------------------------------------------------------
(* C22 *)

\* the step is a set call of a key the full cache did not hold
SetsNewKeyOnFull ==
  /\ cacheRet'.op = "set"
  /\ (cacheRet' # cacheRet \/ cache' # cache)
  /\ Len(cache) = maxSize
  /\ ~MapHas(cache, cacheRet'.key)

\* C22: the cache never holds more than maxSize entries, whatever set, get,
\* delete, clear and cleanup calls were made; and a set of a new key on a full
\* cache removes exactly one of the entries held and leaves the new key held.
C22_SizeBounded ==
  /\ [](Len(cache) <= maxSize)
  /\ [][SetsNewKeyOnFull
          => /\ MapHas(cache', cacheRet'.key)
             /\ Len(cache') = maxSize
             /\ Cardinality({k \in Keys : MapHas(cache, k) /\ ~MapHas(cache', k)})
                  = 1]_vars

\* reached: a full cache after a set of a new key that evicted another key
C22_Witness ==
  /\ cacheRet.op = "set"
  /\ cacheRet.evicted # ""
  /\ cacheRet.evicted # cacheRet.key
  /\ Len(cache) = maxSize
  /\ MapHas(cache, cacheRet.key)
  /\ ~MapHas(cache, cacheRet.evicted)

----------------------------------------------------------------------------
(* Seller pricing configs (routes/sellerPricingConfig.js,                  *)
(* models/SellerPricingConfig.js)                                          *)
(*                                                                         *)
(* A handler runs from one await to the next without interruption; each    *)
(* awaited database operation is one step, and the steps of the requests   *)
(* being handled interleave.                                               *)

\* the ids of the requests; "" is an id left out of the request
SellerIds == {"s1"}
TemplateIds == {"t1", "t2"}

\* the ListingTemplate documents: t1 exists, without a pricingConfig of its
\* own; t2 does not exist
ListingTemplates == {"t1"}

\* req.user.userId
UserId == "u1"

\* the literal of lines 41-53
templateDefault ==
  [k |-> "object", enabled |-> FALSE, spentRate |-> Null, payoutRate |-> Null,
   desiredProfit |-> Null, fixedFee |-> Int2(0), saleTax |-> Int2(0),
   ebayFee |-> Num(129, 10), adsFee |-> Int2(3), tdsFee |-> Int2(1),
   shippingCost |-> Int2(0), taxRate |-> Int2(10)]

\* a tier list validateProfitTiers rejects: a gap between 40 and 50
GapTiers == <<Tier(Int2(0), Int2(40), Int2(10)), ScenarioTiers[2]>>

\* req.body.pricingConfig: left out, flat, tiered with a valid list, enabled
\* with the rejected list, and the rejected list disabled
PostedConfigs ==
  {NoPricingConfig, ScenarioConfig, TieredOnlyConfig,
   [TieredConfig EXCEPT !.profitTiers = ProfitTiers(TRUE, TiersArray(GapTiers))],
   [FullConfig EXCEPT !.profitTiers = ProfitTiers(FALSE, TiersArray(GapTiers))]}

\* the positions of the documents with this sellerId and templateId
Matches(coll, sellerId, templateId) ==
  {i \in 1..Len(coll) :
     coll[i].sellerId = sellerId /\ coll[i].templateId = templateId}

\* the first document a query on { sellerId, templateId } finds
FirstMatchOf(coll, sellerId, templateId) ==
  CHOOSE i \in Matches(coll, sellerId, templateId) :
    \A j \in Matches(coll, sellerId, templateId) : i <= j

\* the unique index on { sellerId: 1, templateId: 1 }: an insert of a second
\* document for the pair is a duplicate key
DuplicateKey_NoIndex(coll, sellerId, templateId) == FALSE

DuplicateKey(coll, sellerId, templateId) ==
  Matches(coll, sellerId, templateId) # {}

\* the update { pricingConfig, createdBy } applied to document i
Updated(coll, i, pricingConfig) ==
  [coll EXCEPT ![i].pricingConfig = CastPricingConfig(pricingConfig),
               ![i].createdBy = UserId]

\* the document an upsert inserts
NewDocument(sellerId, templateId, pricingConfig) ==
  [sellerId |-> sellerId, templateId |-> templateId,
   pricingConfig |-> CastPricingConfig(pricingConfig), createdBy |-> UserId]

\* the collection without its document i
Removed(coll, i) == [j \in 1..(Len(coll) - 1) |-> IF j < i THEN coll[j] ELSE coll[j + 1]]

\* !sellerId || !templateId
IdsMissing(sellerId, templateId) == sellerId = "" \/ templateId = ""

\* the request the slot takes, before the handler runs
Arrived(kind, sellerId, templateId, pricingConfig) ==
  [NoRequest EXCEPT !.kind = kind, !.sellerId = sellerId,
                    !.templateId = templateId, !.pricingConfig = pricingConfig]

\* res.status(status).json({ error })
Failed(r, status, error) ==
  [r EXCEPT !.pc = "done", !.status = status, !.error = error]

\* the handler awaits the database operation op
Awaiting(r, op) == [r EXCEPT !.pc = op]

\* lines 80-88: the tiers are enabled and validateProfitTiers threw
TiersRejected_Unchecked(pricingConfig, outcome) == FALSE

TiersRejected(pricingConfig, outcome) ==
  TiersEnabled(pricingConfig) /\ Threw(outcome)

\* router.post('/'), lines 63-88: up to the await of findOneAndUpdate
PostArrives ==
  \E c \in Clients, sellerId \in SellerIds \cup {""},
     templateId \in TemplateIds \cup {""}, pricingConfig \in PostedConfigs :
    \E outcome \in validateProfitTiers(pricingConfig.profitTiers.tiers) :
      LET r == Arrived("post", sellerId, templateId, pricingConfig)
      IN  /\ requests[c].pc = "idle"
          /\ requests' =
               [requests EXCEPT ![c] =
                  IF IdsMissing(sellerId, templateId)
                    THEN Failed(r, 400, "sellerId and templateId are required")
                  ELSE IF pricingConfig.k # "object"
                    THEN Failed(r, 400, "pricingConfig is required")
                  ELSE IF TiersRejected(pricingConfig, outcome)
                    THEN Failed(r, 400, "Invalid profit tiers")
                  ELSE Awaiting(r, "findOneAndUpdate")]
          /\ UNCHANGED <<sellerPricingConfigs, reverted, outsideStore>>

\* findOneAndUpdate with upsert, lines 91-102: the query of the operation; a
\* document found is updated in the same step
PostFindOneAndUpdate ==
  \E c \in Clients :
    LET r == requests[c]
        coll == sellerPricingConfigs
    IN  /\ r.pc = "findOneAndUpdate"
        /\ IF Matches(coll, r.sellerId, r.templateId) # {}
             THEN /\ sellerPricingConfigs' =
                       Updated(coll, FirstMatchOf(coll, r.sellerId, r.templateId),
                               r.pricingConfig)
                  /\ reverted' = reverted \ {<<r.sellerId, r.templateId>>}
                  /\ requests' = [requests EXCEPT ![c].pc = "done",
                                                  ![c].status = 200]
             ELSE /\ requests' = [requests EXCEPT ![c] = Awaiting(r, "insert")]
                  /\ UNCHANGED <<sellerPricingConfigs, reverted>>
        /\ UNCHANGED outsideStore

\* the insert of an upsert that found no document: under the unique index a
\* pair inserted meanwhile is a duplicate key, which the server answers by
\* the update (its retry) or the driver by an error (lines 108-111)
PostInsert ==
  \E c \in Clients :
    LET r == requests[c]
        coll == sellerPricingConfigs
    IN  /\ r.pc = "insert"
        /\ IF DuplicateKey(coll, r.sellerId, r.templateId)
             THEN \/ /\ sellerPricingConfigs' =
                          Updated(coll,
                                  FirstMatchOf(coll, r.sellerId, r.templateId),
                                  r.pricingConfig)
                     /\ reverted' = reverted \ {<<r.sellerId, r.templateId>>}
                     /\ requests' = [requests EXCEPT ![c].pc = "done",
                                                     ![c].status = 200]
                  \/ /\ requests' =
                          [requests EXCEPT ![c] = Failed(r, 500, "E11000 duplicate key")]
                     /\ UNCHANGED <<sellerPricingConfigs, reverted>>
             ELSE /\ sellerPricingConfigs' =
                       Append(coll, NewDocument(r.sellerId, r.templateId,
                                                r.pricingConfig))
                  /\ reverted' = reverted \ {<<r.sellerId, r.templateId>>}
                  /\ requests' = [requests EXCEPT ![c].pc = "done",
                                                  ![c].status = 200]
        /\ UNCHANGED outsideStore

\* router.get('/'), lines 10-24: up to the await of findOne
GetArrives ==
  \E c \in Clients, sellerId \in SellerIds \cup {""},
     templateId \in TemplateIds \cup {""} :
    LET r == Arrived("get", sellerId, templateId, NoPricingConfig)
    IN  /\ requests[c].pc = "idle"
        /\ requests' =
             [requests EXCEPT ![c] =
                IF IdsMissing(sellerId, templateId)
                  THEN Failed(r, 400, "sellerId and templateId are required")
                  ELSE Awaiting(r, "findOne")]
        /\ UNCHANGED <<sellerPricingConfigs, reverted, outsideStore>>

\* findOne and lines 26-34: the seller's own config is answered, or the
\* handler goes on to the template
GetFindOne ==
  \E c \in Clients :
    LET r == requests[c]
        coll == sellerPricingConfigs
        after == <<r.sellerId, r.templateId>> \in reverted
    IN  /\ r.pc = "findOne"
        /\ requests' =
             [requests EXCEPT ![c] =
                IF Matches(coll, r.sellerId, r.templateId) # {}
                  THEN [r EXCEPT
                          !.pc = "done", !.status = 200, !.isCustom = "true",
                          !.returned =
                            coll[FirstMatchOf(coll, r.sellerId, r.templateId)]
                              .pricingConfig,
                          !.afterRevert = after]
                  ELSE [r EXCEPT !.pc = "findById", !.afterRevert = after]]
        /\ UNCHANGED <<sellerPricingConfigs, reverted, outsideStore>>

\* ListingTemplate.findById and lines 36-55
GetFindById ==
  \E c \in Clients :
    LET r == requests[c]
    IN  /\ r.pc = "findById"
        /\ requests' =
             [requests EXCEPT ![c] =
                IF r.templateId \notin ListingTemplates
                  THEN Failed(r, 404, "Template not found")
                  ELSE [r EXCEPT !.pc = "done", !.status = 200,
                                 !.isCustom = "false",
                                 !.returned = templateDefault]]
        /\ UNCHANGED <<sellerPricingConfigs, reverted, outsideStore>>

\* router.delete('/'), lines 115-123: up to the await of findOneAndDelete
DeleteArrives ==
  \E c \in Clients, sellerId \in SellerIds \cup {""},
     templateId \in TemplateIds \cup {""} :
    LET r == Arrived("delete", sellerId, templateId, NoPricingConfig)
    IN  /\ requests[c].pc = "idle"
        /\ requests' =
             [requests EXCEPT ![c] =
                IF IdsMissing(sellerId, templateId)
                  THEN Failed(r, 400, "sellerId and templateId are required")
                  ELSE Awaiting(r, "findOneAndDelete")]
        /\ UNCHANGED <<sellerPricingConfigs, reverted, outsideStore>>

\* findOneAndDelete and lines 130-133
DeleteFindOneAndDelete ==
  \E c \in Clients :
    LET r == requests[c]
        coll == sellerPricingConfigs
    IN  /\ r.pc = "findOneAndDelete"
        /\ sellerPricingConfigs' =
             IF Matches(coll, r.sellerId, r.templateId) # {}
               THEN Removed(coll, FirstMatchOf(coll, r.sellerId, r.templateId))
               ELSE coll
        /\ reverted' = reverted \cup {<<r.sellerId, r.templateId>>}
        /\ requests' = [requests EXCEPT ![c].pc = "done", ![c].status = 200]
        /\ UNCHANGED outsideStore

\* the response is sent and the slot is free again
Respond ==
  \E c \in Clients :
    /\ requests[c].pc = "done"
    /\ requests' = [requests EXCEPT ![c] = NoRequest]
    /\ UNCHANGED <<sellerPricingConfigs, reverted, outsideStore>>

InitSellerPricing ==
  /\ config = ScenarioConfig
  /\ ret = NoCall
  /\ earlier = NoCall
  /\ InitElsewhere

NextSellerPricing ==
  \/ PostArrives
  \/ PostFindOneAndUpdate
  \/ PostInsert
  \/ GetArrives
  \/ GetFindOne
  \/ GetFindById
  \/ DeleteArrives
  \/ DeleteFindOneAndDelete
  \/ Respond

SpecSellerPricing == InitSellerPricing /\ [][NextSellerPricing]_vars

----------------------------------------------------------------------------
(* C26 *)

\* a POST whose tiers are enabled and break the tier invariants
HasBadTiers(r) ==
  /\ r.pricingConfig.k = "object"
  /\ TiersEnabled(r.pricingConfig)
  /\ ~TierInvariants(r.pricingConfig.profitTiers.tiers)

\* a POST that must not be stored
BadPost(r) ==
  /\ r.kind = "post"
  /\ (\/ IdsMissing(r.sellerId, r.templateId)
      \/ r.pricingConfig.k # "object"
      \/ HasBadTiers(r))

\* C26: a POST whose profitTiers.enabled is true and whose tier list fails
\* validateProfitTiers is answered with status 400, and so is a POST without
\* sellerId, templateId or pricingConfig; such a request never reaches the
\* database, and the step that handles it leaves the collection as it is: no
\* document is created and none is overwritten.
C26_RejectedPostChangesNothing ==
  /\ [](\A c \in Clients :
          BadPost(requests[c])
            => /\ requests[c].pc = "done"
               /\ requests[c].status = 400)
  /\ [][\A c \in Clients :
          (BadPost(requests'[c]) /\ requests'[c] # requests[c])
            => sellerPricingConfigs' = sellerPricingConfigs]_vars

\* reached: a POST with a rejected tier list is answered 400 while the pair
\* has a stored config, which is a different one
C26_Witness ==
  \E c \in Clients :
    /\ HasBadTiers(requests[c])
    /\ ~IdsMissing(requests[c].sellerId, requests[c].templateId)
    /\ requests[c].status = 400
    /\ requests[c].error = "Invalid profit tiers"
    /\ \E i \in Matches(sellerPricingConfigs, requests[c].sellerId,
                        requests[c].templateId) :
         sellerPricingConfigs[i].pricingConfig
           # CastPricingConfig(requests[c].pricingConfig)

----------------------------------------------------------------------------
(* C27 *)

\* the (sellerId, templateId) pairs of the requests
Pairs == SellerIds \X TemplateIds

\* the collection holds at most one document for each pair
OnePerPair ==
  \A p \in Pairs : Cardinality(Matches(sellerPricingConfigs, p[1], p[2])) <= 1

\* the step is the write of client c's POST for a pair that had a document
PostOverwrites(c) ==
  /\ requests[c].kind = "post"
  /\ requests[c].pc \in {"findOneAndUpdate", "insert"}
  /\ requests'[c].status = 200
  /\ Matches(sellerPricingConfigs, requests[c].sellerId,
             requests[c].templateId) # {}

\* the write replaced the pair's pricingConfig and added no document
Replaced(c) ==
  /\ Len(sellerPricingConfigs') = Len(sellerPricingConfigs)
  /\ \A i \in Matches(sellerPricingConfigs', requests[c].sellerId,
                      requests[c].templateId) :
       sellerPricingConfigs'[i].pricingConfig
         = CastPricingConfig(requests[c].pricingConfig)
  /\ \A i \in 1..Len(sellerPricingConfigs) :
       i \notin Matches(sellerPricingConfigs, requests[c].sellerId,
                        requests[c].templateId)
         => sellerPricingConfigs'[i] = sellerPricingConfigs[i]

\* a GET that read the collection after a DELETE for its pair and before the
\* next POST written for it
ReadAfterDelete(r) ==
  r.kind = "get" /\ r.afterRevert /\ r.pc = "done"

\* C27 (as claimed): under every interleaving of POST and DELETE requests the
\* collection holds at most one config per (sellerId, templateId); a POST for
\* a pair that has a config replaces its pricingConfig and adds no record;
\* and a GET after a DELETE for the pair reports isCustom false until the
\* next POST.
C27_OneConfigPerPair ==
  /\ [](/\ OnePerPair
        /\ \A c \in Clients :
             ReadAfterDelete(requests[c]) => requests[c].isCustom = "false")
  /\ [][\A c \in Clients : PostOverwrites(c) => Replaced(c)]_vars

\* C27 (amended): the same, where the GET after a DELETE reports isCustom
\* false when the template exists and answers 404, without isCustom, when it
\* does not; it never reports isCustom true.
C27_OneConfigPerPairOrNoTemplate ==
  /\ [](/\ OnePerPair
        /\ \A c \in Clients :
             ReadAfterDelete(requests[c])
               => IF requests[c].templateId \in ListingTemplates
                    THEN requests[c].status = 200
                         /\ requests[c].isCustom = "false"
                    ELSE requests[c].status = 404
                         /\ requests[c].isCustom = "")
  /\ [][\A c \in Clients : PostOverwrites(c) => Replaced(c)]_vars

\* reached: two POSTs for one pair both found no document, one inserted it
\* and the other was refused by the unique index; the pair has one document
C27_Witness ==
  \E c \in Clients :
    /\ requests[c].kind = "post"
    /\ requests[c].status = 500
    /\ Cardinality(Matches(sellerPricingConfigs, requests[c].sellerId,
                           requests[c].templateId)) = 1

----------------------------------------------------------------------------
(* Leave requests (routes/leaves.js, src/unnamed/part_013)                 *)
(*                                                                         *)
(* Dates are whole days, numbered from today = 0, in months of             *)
(* DaysPerMonth days; the time of day and the time zone are not modelled.  *)
(* A handler runs from one await to the next without interruption; each    *)
(* awaited database operation is one step.                                 *)

MAX_LEAVES_PER_MONTH == 2
MAX_PEOPLE_PER_DEPT == 2
MIN_ADVANCE_DAYS == 2

\* the length of a month, scaled down, and the most documents ever created
DaysPerMonth == 2
MaxLeaves == 2

\* new Date() at midnight, line 52-53
Today == 0

\* the startDate and endDate of the requests; days 2-3 and 4-5 are the two
\* months after today's: too soon, the end before the start, one day, two
\* days of one month, two days across the month boundary, three days
LeaveRanges ==
  {<<1, 1>>, <<4, 3>>, <<4, 4>>, <<4, 5>>, <<3, 4>>, <<3, 5>>}

\* the employees and User.department; u3 has no department
Employees == {"u1", "u2", "u3"}
department == [u \in Employees |-> IF u = "u3" THEN "" ELSE "ops"]

\* new Date(year, month, 1) and new Date(year, month + 1, 0) of a day
monthStart(d) == (d \div DaysPerMonth) * DaysPerMonth
monthEnd(d) == monthStart(d) + DaysPerMonth - 1

Max(a, b) == IF a > b THEN a ELSE b
Min(a, b) == IF a < b THEN a ELSE b

\* calculateDays, lines 17-23
calculateDays(startDate, endDate) == Abs(endDate - startDate) + 1

\* the query of lines 82-90
existingLeaves(userId, first, last) ==
  {l \in leaveRequests :
     /\ l.user = userId
     /\ l.status \in {"approved", "pending"}
     /\ \/ (l.startDate >= first /\ l.startDate <= last)
        \/ (l.endDate >= first /\ l.endDate <= last)
        \/ (l.startDate <= first /\ l.endDate >= last)}

\* the sum of a number over a set of documents
RECURSIVE SumOver(_, _, _)
SumOver(leaves, first, last) ==
  IF leaves = {} THEN 0
  ELSE LET l == CHOOSE x \in leaves : TRUE
       IN  calculateDays(Max(l.startDate, first), Min(l.endDate, last))
             + SumOver(leaves \ {l}, first, last)

\* lines 93-99
totalDaysInMonth(userId, startDate) ==
  SumOver(existingLeaves(userId, monthStart(startDate), monthEnd(startDate)),
          monthStart(startDate), monthEnd(startDate))

\* line 101: the quota test, on the month of the start date
OverQuota(userId, startDate, endDate) ==
  totalDaysInMonth(userId, startDate) + calculateDays(startDate, endDate)
    > MAX_LEAVES_PER_MONTH

\* lines 125-129, 234-239: the approved leaves that cover the date, without
\* the document excluded (0: none)
overlappingLeaves(date, excluded) ==
  {l \in leaveRequests :
     /\ l.status = "approved"
     /\ l.id # excluded
     /\ l.startDate <= date
     /\ l.endDate >= date}

\* lines 132-136: the department is full for a new request of userId
DeptFullForRequest(date, userId) ==
  Cardinality({l \in overlappingLeaves(date, 0) :
                 department[l.user] = department[userId] /\ l.user # userId})
    >= MAX_PEOPLE_PER_DEPT

\* lines 241-245: the department is full for the approval of document id
DeptFullForApproval(date, id, userId) ==
  Cardinality({l \in overlappingLeaves(date, id) :
                 department[l.user] = department[userId]})
    >= MAX_PEOPLE_PER_DEPT

\* LeaveRequest.findById(id): the documents with the id (none or one)
ById(id) == {l \in leaveRequests : l.id = id}

\* res.status(code).json(...): the handler's locals are gone
Answered(r, code) ==
  [NoLeaveCall EXCEPT !.kind = r.kind, !.pc = "done", !.id = r.id,
                      !.code = code]

\* the requests being handled that will create a document
Creating == {c \in Clients : leaveCalls[c].kind = "post" /\ leaveCalls[c].pc # "done"}

\* router.post('/'), lines 40-68: up to the await of the quota query
PostLeaveArrives ==
  \E c \in Clients, userId \in Employees, range \in LeaveRanges,
     complete \in BOOLEAN :
    LET startDate == range[1]
        endDate == range[2]
        r == [NoLeaveCall EXCEPT !.kind = "post", !.user = userId,
                                 !.startDate = startDate, !.endDate = endDate]
    IN  /\ leaveCalls[c].pc = "idle"
        /\ created + Cardinality(Creating) < MaxLeaves
        /\ leaveCalls' =
             [leaveCalls EXCEPT ![c] =
                IF ~complete THEN Answered(r, 400)
                ELSE IF startDate < Today + MIN_ADVANCE_DAYS THEN Answered(r, 400)
                ELSE IF endDate < startDate THEN Answered(r, 400)
                ELSE [r EXCEPT !.pc = "findExisting"]]
        /\ UNCHANGED <<leaveRequests, created, outsideLeaves>>

\* lines 82-105: the quota query and test
PostFindExisting ==
  \E c \in Clients :
    LET r == leaveCalls[c]
    IN  /\ r.kind = "post" /\ r.pc = "findExisting"
        /\ leaveCalls' =
             [leaveCalls EXCEPT ![c] =
                IF OverQuota(r.user, r.startDate, r.endDate)
                  THEN Answered(r, 400)
                  ELSE [r EXCEPT !.pc = "findUser"]]
        /\ UNCHANGED <<leaveRequests, created, outsideLeaves>>

\* lines 109-115: the user's department
PostFindUser ==
  \E c \in Clients :
    LET r == leaveCalls[c]
    IN  /\ r.kind = "post" /\ r.pc = "findUser"
        /\ leaveCalls' =
             [leaveCalls EXCEPT ![c] =
                IF department[r.user] = ""
                  THEN Answered(r, 400)
                  ELSE [r EXCEPT !.pc = "checkDate", !.date = r.startDate]]
        /\ UNCHANGED <<leaveRequests, created, outsideLeaves>>

\* lines 118-141: one turn of the loop over the requested dates
PostCheckDate ==
  \E c \in Clients :
    LET r == leaveCalls[c]
    IN  /\ r.kind = "post" /\ r.pc = "checkDate"
        /\ leaveCalls' =
             [leaveCalls EXCEPT ![c] =
                IF DeptFullForRequest(r.date, r.user) THEN Answered(r, 400)
                ELSE IF r.date < r.endDate THEN [r EXCEPT !.date = r.date + 1]
                ELSE [r EXCEPT !.pc = "create"]]
        /\ UNCHANGED <<leaveRequests, created, outsideLeaves>>

\* lines 144-153: LeaveRequest.create
PostCreate ==
  \E c \in Clients :
    LET r == leaveCalls[c]
    IN  /\ r.kind = "post" /\ r.pc = "create"
        /\ leaveRequests' =
             leaveRequests \cup
               {[id |-> created + 1, user |-> r.user, startDate |-> r.startDate,
                 endDate |-> r.endDate,
                 numberOfDays |-> calculateDays(r.startDate, r.endDate),
                 status |-> "pending"]}
        /\ created' = created + 1
        /\ leaveCalls' =
             [leaveCalls EXCEPT ![c] =
                Answered([r EXCEPT !.id = created + 1], 201)]
        /\ UNCHANGED outsideLeaves

\* req.params.id: the id of a document, or an id no document has
RequestedIds == {l.id : l \in leaveRequests} \cup {created + 1}

\* router.put('/:id/status'), lines 201-212: up to the await of findById
PutArrives ==
  \E c \in Clients, id \in RequestedIds,
     status \in {"approved", "rejected", "cancelled"}, reasonGiven \in BOOLEAN :
    LET r == [NoLeaveCall EXCEPT !.kind = "put", !.id = id, !.status = status]
    IN  /\ leaveCalls[c].pc = "idle"
        /\ leaveCalls' =
             [leaveCalls EXCEPT ![c] =
                IF status \notin {"approved", "rejected"} THEN Answered(r, 400)
                ELSE IF status = "rejected" /\ ~reasonGiven THEN Answered(r, 400)
                ELSE [r EXCEPT !.pc = "findById"]]
        /\ UNCHANGED <<leaveRequests, created, outsideLeaves>>

\* lines 214-224: the document is read and must be pending
PutFindById ==
  \E c \in Clients :
    LET r == leaveCalls[c]
    IN  /\ r.kind = "put" /\ r.pc = "findById"
        /\ leaveCalls' =
             [leaveCalls EXCEPT ![c] =
                IF ById(r.id) = {} THEN Answered(r, 404)
                ELSE LET l == CHOOSE x \in ById(r.id) : TRUE
                     IN  IF l.status # "pending" THEN Answered(r, 400)
                         ELSE IF r.status = "approved"
                           THEN [r EXCEPT !.pc = "findUser", !.user = l.user,
                                          !.startDate = l.startDate,
                                          !.endDate = l.endDate]
                           ELSE [r EXCEPT !.pc = "save", !.user = l.user,
                                          !.startDate = l.startDate,
                                          !.endDate = l.endDate]]
        /\ UNCHANGED <<leaveRequests, created, outsideLeaves>>

\* lines 225-226: User.findById(leaveRequest.user)
PutFindUser ==
  \E c \in Clients :
    LET r == leaveCalls[c]
    IN  /\ r.kind = "put" /\ r.pc = "findUser"
        /\ leaveCalls' =
             [leaveCalls EXCEPT ![c] = [r EXCEPT !.pc = "checkDate",
                                                 !.date = r.startDate]]
        /\ UNCHANGED <<leaveRequests, created, outsideLeaves>>

\* lines 228-250: one turn of the loop over the dates of the leave
PutCheckDate ==
  \E c \in Clients :
    LET r == leaveCalls[c]
    IN  /\ r.kind = "put" /\ r.pc = "checkDate"
        /\ leaveCalls' =
             [leaveCalls EXCEPT ![c] =
                IF DeptFullForApproval(r.date, r.id, r.user) THEN Answered(r, 400)
                ELSE IF r.date < r.endDate THEN [r EXCEPT !.date = r.date + 1]
                ELSE [r EXCEPT !.pc = "save"]]
        /\ UNCHANGED <<leaveRequests, created, outsideLeaves>>

\* lines 253-259: leaveRequest.save() writes the status to the document with
\* the id; a document deleted meanwhile makes save throw (500)
PutSave ==
  \E c \in Clients :
    LET r == leaveCalls[c]
    IN  /\ r.kind = "put" /\ r.pc = "save"
        /\ leaveRequests' =
             {IF l.id = r.id THEN [l EXCEPT !.status = r.status] ELSE l :
                l \in leaveRequests}
        /\ leaveCalls' =
             [leaveCalls EXCEPT ![c] =
                Answered(r, IF ById(r.id) = {} THEN 500 ELSE 200)]
        /\ UNCHANGED <<created, outsideLeaves>>

\* router.delete('/:id'), lines 267-272: up to the await of findById
DeleteLeaveArrives ==
  \E c \in Clients, id \in RequestedIds, userId \in Employees :
    /\ leaveCalls[c].pc = "idle"
    /\ leaveCalls' =
         [leaveCalls EXCEPT ![c] =
            [NoLeaveCall EXCEPT !.kind = "delete", !.id = id, !.user = userId,
                                !.pc = "findById"]]
    /\ UNCHANGED <<leaveRequests, created, outsideLeaves>>

\* lines 272-285: the document is read, must be the caller's and pending
DeleteFindById ==
  \E c \in Clients :
    LET r == leaveCalls[c]
    IN  /\ r.kind = "delete" /\ r.pc = "findById"
        /\ leaveCalls' =
             [leaveCalls EXCEPT ![c] =
                IF ById(r.id) = {} THEN Answered(r, 404)
                ELSE LET l == CHOOSE x \in ById(r.id) : TRUE
                     IN  IF l.user # r.user THEN Answered(r, 403)
                         ELSE IF l.status # "pending" THEN Answered(r, 400)
                         ELSE [r EXCEPT !.pc = "findByIdAndDelete"]]
        /\ UNCHANGED <<leaveRequests, created, outsideLeaves>>

\* lines 287-288: LeaveRequest.findByIdAndDelete(id)
DeleteFindByIdAndDelete ==
  \E c \in Clients :
    LET r == leaveCalls[c]
    IN  /\ r.kind = "delete" /\ r.pc = "findByIdAndDelete"
        /\ leaveRequests' = leaveRequests \ ById(r.id)
        /\ leaveCalls' = [leaveCalls EXCEPT ![c] = Answered(r, 200)]
        /\ UNCHANGED <<created, outsideLeaves>>

\* the response is sent and the slot is free again
LeaveRespond ==
  \E c \in Clients :
    /\ leaveCalls[c].pc = "done"
    /\ leaveCalls' = [leaveCalls EXCEPT ![c] = NoLeaveCall]
    /\ UNCHANGED <<leaveRequests, created, outsideLeaves>>

InitLeaveRequests ==
  /\ config = ScenarioConfig
  /\ ret = NoCall
  /\ earlier = NoCall
  /\ InitElsewhere

NextLeaveRequests ==
  \/ PostLeaveArrives
  \/ PostFindExisting
  \/ PostFindUser
  \/ PostCheckDate
  \/ PostCreate
  \/ PutArrives
  \/ PutFindById
  \/ PutFindUser
  \/ PutCheckDate
  \/ PutSave
  \/ DeleteLeaveArrives
  \/ DeleteFindById
  \/ DeleteFindByIdAndDelete
  \/ LeaveRespond

SpecLeaveRequests == InitLeaveRequests /\ [][NextLeaveRequests]_vars

\* Approvals alone: the admin's status updates on leaves already requested

\* three pending leaves that cover day 4, two of u1 (one day each, the quota
\* of the month) and one of u2, as three POSTs create them
PendingLeaves ==
  {[id |-> 1, user |-> "u1", startDate |-> 4, endDate |-> 4,
    numberOfDays |-> 1, status |-> "pending"],
   [id |-> 2, user |-> "u1", startDate |-> 4, endDate |-> 4,
    numberOfDays |-> 1, status |-> "pending"],
   [id |-> 3, user |-> "u2", startDate |-> 4, endDate |-> 5,
    numberOfDays |-> 2, status |-> "pending"]}

InitApprovals ==
  /\ config = ScenarioConfig
  /\ ret = NoCall
  /\ earlier = NoCall
  /\ InitCache
  /\ InitStore
  /\ leaveRequests = PendingLeaves
  /\ created = 3
  /\ leaveCalls = [c \in Clients |-> NoLeaveCall]

NextApprovals ==
  \/ PutArrives
  \/ PutFindById
  \/ PutFindUser
  \/ PutCheckDate
  \/ PutSave
  \/ LeaveRespond

SpecApprovals == InitApprovals /\ [][NextApprovals]_vars

----------------------------------------------------------------------------
(* C28 *)

\* the document was approved or rejected
Decided(l) == l.status \in {"approved", "rejected"}

\* C28: a leave request changes only while it is pending: once approved or
\* rejected, no request changes or deletes it, under any interleaving of
\* status updates and cancellations.
C28_DecidedLeaveIsFinal ==
  [][\A l \in leaveRequests : Decided(l) => l \in leaveRequests']_vars

\* what does hold: a handler that reads a decided document answers 400 (or
\* 403 to a DELETE of another user) and writes nothing, so a decided leave
\* is changed only by a request that read it while it was pending
C28_DecidedLeaveReadIsRefused ==
  [][\A c \in Clients :
       (/\ leaveCalls[c].pc = "findById"
        /\ leaveCalls'[c] # leaveCalls[c]
        /\ \E l \in ById(leaveCalls[c].id) : Decided(l))
       => /\ leaveCalls'[c].pc = "done"
          /\ leaveCalls'[c].code \in {400, 403}
          /\ leaveRequests' = leaveRequests]_vars

----------------------------------------------------------------------------
(* C29 *)

\* the approved leaves of the department's users that cover the day
OnLeave(dept, day) ==
  {l \in leaveRequests :
     /\ l.status = "approved"
     /\ department[l.user] = dept
     /\ l.startDate <= day
     /\ day <= l.endDate}

\* C29: at every time, for each department and each day, at most
\* MAX_PEOPLE_PER_DEPT approved leave requests of the department's users
\* cover the day, under any interleaving of creation and approval requests.
C29_DepartmentCapacity ==
  \A day \in 1..5 :
    Cardinality(OnLeave("ops", day)) <= MAX_PEOPLE_PER_DEPT

\* what does hold: an approval that starts its capacity check when the
\* department is full on a day of the leave is refused
C29_FullDepartmentSeenIsRefused ==
  [][\A c \in Clients :
       (/\ leaveCalls[c].kind = "put"
        /\ leaveCalls[c].pc = "checkDate"
        /\ leaveCalls'[c] # leaveCalls[c]
        /\ DeptFullForApproval(leaveCalls[c].date, leaveCalls[c].id,
                               leaveCalls[c].user))
       => /\ leaveCalls'[c].pc = "done"
          /\ leaveCalls'[c].code = 400
          /\ leaveRequests' = leaveRequests]_vars

----------------------------------------------------------------------------
(* C30 *)

\* the days of a leave that fall inside the month that starts on day first
DaysInside(l, first) ==
  Max(0, Min(l.endDate, first + DaysPerMonth - 1)
           - Max(l.startDate, first) + 1)

RECURSIVE DaysOf(_, _)
DaysOf(leaves, first) ==
  IF leaves = {} THEN 0
  ELSE LET l == CHOOSE x \in leaves : TRUE
       IN  DaysInside(l, first) + DaysOf(leaves \ {l}, first)

\* the pending and approved leaves of an employee
Counted(userId) ==
  {l \in leaveRequests :
     l.user = userId /\ l.status \in {"approved", "pending"}}

\* the first days of the months of the model
Months == {m * DaysPerMonth : m \in 0..2}

\* C30: for each employee and each calendar month, the days of the
\* employee's pending and approved leaves that fall inside the month never
\* exceed MAX_LEAVES_PER_MONTH, requests that span a month boundary included.
C30_MonthlyQuota ==
  \A u \in Employees, first \in Months :
    DaysOf(Counted(u), first) <= MAX_LEAVES_PER_MONTH

====
